---- MODULE Spec2Model ----
(***************************************************************************)
(* Cycle-level model of src/sim.c: four 5-stage pipelined cores with       *)
(* private direct-mapped write-back caches on a MESI snooping bus with     *)
(* round-robin arbitration.  One iteration of the while(1) loop of         *)
(* simulate() is four actions in program order: WritebackCommit,           *)
(* PipelineAdvance, BusArbitrate, BusAdvance.                              *)
(***************************************************************************)
EXTENDS Integers, Sequences, FiniteSets, TLC

\* ---------------------------------------------------------------- constants
NUM_CORES == 4
REG_COUNT == 16
IMEM_SIZE == 1024
MAIN_MEM_WORDS == 1048576
CACHE_LINES == 64
BLOCK_WORDS == 8
OFFSET_BITS == 3
INDEX_BITS == 6
TAG_BITS == 11
MEM_LATENCY == 16

BUS_NONE == 0
BUS_RD == 1
BUS_RDX == 2
BUS_FLUSH == 3

MESI_I == 0
MESI_S == 1
MESI_E == 2
MESI_M == 3

OP_ADD == 0
OP_SUB == 1
OP_AND == 2
OP_OR == 3
OP_XOR == 4
OP_MUL == 5
OP_SLL == 6
OP_SRA == 7
OP_SRL == 8
OP_BEQ == 9
OP_BNE == 10
OP_BLT == 11
OP_BGT == 12
OP_BLE == 13
OP_BGE == 14
OP_JAL == 15
OP_LW == 16
OP_SW == 17
OP_HALT == 20

\* Bus phases (BusState.phase)
PHASE_IDLE == 0
PHASE_WAIT == 1
PHASE_FLUSH == 2

\* ------------------------------------------------------------------- bounds
\* Cache lines 0..ModelLines-1 and tags 0..ModelTags-1 are kept in the state;
\* the input programs only address blocks inside this window.
ModelLines == 2
ModelTags == 2
\* Value of SIM_MAX_CYCLES in the capped runs.
MaxCycles == 30
\* Number of retired instructions that retire_log keeps per core.
RetireWindow == 4

Cores == 0..(NUM_CORES - 1)
Lines == 0..(ModelLines - 1)
Tags == 0..(ModelTags - 1)
Offsets == 0..(BLOCK_WORDS - 1)

\* ------------------------------------------------------- 32-bit arithmetic
\* Register values are kept as the int32_t the code casts them to.
MaxInt32 == 2147483647
MinInt32 == (-2147483647) - 1

\* (uint32_t)(a + b) read back as int32_t: two's-complement wrap.
Add32(a, b) ==
    IF a > 0 /\ b > 0 /\ a > MaxInt32 - b THEN (a + MinInt32) + (b + MinInt32)
    ELSE IF a < 0 /\ b < 0 /\ a < MinInt32 - b THEN (a - MinInt32) + (b - MinInt32)
    ELSE a + b

Neg32(b) == IF b = MinInt32 THEN MinInt32 ELSE -b

Sub32(a, b) == Add32(a, Neg32(b))

\* bit k (0..31) of the two's-complement pattern of x
Bit32(x, k) == IF k = 31 THEN (IF x < 0 THEN 1 ELSE 0) ELSE (x \div (2 ^ k)) % 2

RECURSIVE FromBits(_, _, _)
\* the int32 whose bit k is f[k]; accumulates bits k..30, then the sign bit
FromBits(f, k, acc) ==
    IF k = 31 THEN (IF f[31] = 1 THEN (acc + MinInt32) ELSE acc)
    ELSE FromBits(f, k + 1, acc + f[k] * (2 ^ k))

And32(a, b) == FromBits([k \in 0..31 |-> Bit32(a, k) * Bit32(b, k)], 0, 0)
Or32(a, b) ==
    FromBits([k \in 0..31 |-> IF Bit32(a, k) + Bit32(b, k) > 0 THEN 1 ELSE 0], 0, 0)
Xor32(a, b) == FromBits([k \in 0..31 |-> (Bit32(a, k) + Bit32(b, k)) % 2], 0, 0)

\* (uint32_t)rs << shift
Sll32(a, s) == FromBits([k \in 0..31 |-> IF k >= s THEN Bit32(a, k - s) ELSE 0], 0, 0)
\* (int32_t)rs >> shift (arithmetic)
Sra32(a, s) == a \div (2 ^ s)
\* (uint32_t)rs >> shift (logical)
Srl32(a, s) == FromBits([k \in 0..31 |-> IF k + s <= 31 THEN Bit32(a, k + s) ELSE 0], 0, 0)

RECURSIVE Mul32(_, _, _)
\* low 32 bits of a * b by shift-and-add over the bits k..31 of b
Mul32(a, b, k) ==
    IF k = 32 THEN 0
    ELSE Add32(IF Bit32(b, k) = 1 THEN Sll32(a, k) ELSE 0, Mul32(a, b, k + 1))

\* ---------------------------------------------------------- utility helpers
sign_extend(val, bits) ==
    LET v == val % (2 ^ bits)
    IN  IF v >= 2 ^ (bits - 1) THEN v - (2 ^ bits) ELSE v

decode_inst(raw, pc) ==
    [op |-> (raw \div 16777216) % 256,
     rd |-> (raw \div 1048576) % 16,
     rs |-> (raw \div 65536) % 16,
     rt |-> (raw \div 4096) % 16,
     imm |-> sign_extend(raw % 4096, 12),
     pc |-> pc]

IsBranch(op) == op >= OP_BEQ /\ op <= OP_BGE

\* fault: the test rd <= 1 of line 206 is missing
dest_reg_any_rd(inst) ==
    IF inst.op = OP_HALT \/ inst.op = OP_SW THEN -1
    ELSE IF IsBranch(inst.op) THEN -1
    ELSE IF inst.op = OP_JAL THEN 15
    ELSE inst.rd

dest_reg(inst) ==
    IF inst.op = OP_HALT \/ inst.op = OP_SW THEN -1
    ELSE IF IsBranch(inst.op) THEN -1
    ELSE IF inst.op = OP_JAL THEN 15
    ELSE IF inst.rd <= 1 THEN -1
    ELSE inst.rd

source_regs(inst) ==
    IF inst.op \in (OP_ADD..OP_SRL) \cup {OP_LW} THEN {inst.rs, inst.rt}
    ELSE IF inst.op = OP_SW THEN {inst.rd, inst.rs, inst.rt}
    ELSE IF IsBranch(inst.op) THEN {inst.rs, inst.rt, inst.rd}
    ELSE IF inst.op = OP_JAL THEN {inst.rd}
    ELSE {}

perform_compare(inst, rs, rt) ==
    CASE inst.op = OP_BEQ -> rs = rt
      [] inst.op = OP_BNE -> rs # rt
      [] inst.op = OP_BLT -> rs < rt
      [] inst.op = OP_BGT -> rs > rt
      [] inst.op = OP_BLE -> rs <= rt
      [] inst.op = OP_BGE -> rs >= rt
      [] OTHER -> FALSE

perform_alu(inst, rs, rt) ==
    LET shift == rt % 32
    IN  CASE inst.op = OP_ADD -> Add32(rs, rt)
          [] inst.op = OP_SUB -> Sub32(rs, rt)
          [] inst.op = OP_AND -> And32(rs, rt)
          [] inst.op = OP_OR -> Or32(rs, rt)
          [] inst.op = OP_XOR -> Xor32(rs, rt)
          [] inst.op = OP_MUL -> Mul32(rs, rt, 0)
          [] inst.op = OP_SLL -> Sll32(rs, shift)
          [] inst.op = OP_SRA -> Sra32(rs, shift)
          [] inst.op = OP_SRL -> Srl32(rs, shift)
          [] inst.op = OP_JAL -> (inst.pc + 1) % IMEM_SIZE
          [] OTHER -> 0

\* ------------------------------------------------------------ cache helpers
cache_index(addr) == (addr \div (2 ^ OFFSET_BITS)) % CACHE_LINES
cache_tag(addr) == (addr \div (2 ^ (OFFSET_BITS + INDEX_BITS))) % (2 ^ TAG_BITS)
line_base_addr(tag, index) ==
    (tag % (2 ^ TAG_BITS)) * (2 ^ (OFFSET_BITS + INDEX_BITS)) + index * (2 ^ OFFSET_BITS)
block_base(addr) == addr - (addr % BLOCK_WORDS)

\* The words of main memory and of each cache that the state keeps.
MemAddrs == {line_base_addr(t, l) + o : t \in Tags, l \in Lines, o \in Offsets}
CacheWords == 0..(ModelLines * BLOCK_WORDS - 1)


\* fault: the evicted line is dropped without a write-back
writeback_line_never(c, idx, mem) == mem

writeback_line(c, idx, mem) ==
    IF c.state[idx] # MESI_M THEN mem
    ELSE LET base == line_base_addr(c.tag[idx], idx)
         IN  [a \in DOMAIN mem |->
                 IF \E i \in Offsets : a = (base + i) % MAIN_MEM_WORDS
                 THEN c.data[idx * BLOCK_WORDS + (a - base)]
                 ELSE mem[a]]

\* Result: the filled cache and main memory after the eviction write-back.
fill_cache_line(c, idx, tag, block, new_state, mem) ==
    [cache |-> [data |-> [w \in DOMAIN c.data |->
                             IF w \div BLOCK_WORDS = idx THEN block[w % BLOCK_WORDS]
                             ELSE c.data[w]],
                tag |-> [c.tag EXCEPT ![idx] = tag % (2 ^ TAG_BITS)],
                state |-> [c.state EXCEPT ![idx] = new_state]],
     mem |-> writeback_line(c, idx, mem)]

\* The line at the index of addr in cache c, and its block in main memory
\* (what fill_cache_line is about to replace, lines 355-362)
Resident(c, addr, mem) ==
    [state |-> c.state[cache_index(addr)],
     tag |-> c.tag[cache_index(addr)],
     index |-> cache_index(addr),
     data |-> [o \in Offsets |-> c.data[cache_index(addr) * BLOCK_WORDS + o]],
     block |-> [o \in Offsets |->
                  mem[line_base_addr(c.tag[cache_index(addr)], cache_index(addr)) + o]]]

\* state is the caller's initial MESI_I when the lookup misses
cache_lookup(c, addr) ==
    LET idx == cache_index(addr)
    IN  IF c.state[idx] # MESI_I /\ c.tag[idx] = cache_tag(addr)
        THEN [hit |-> TRUE, state |-> c.state[idx]]
        ELSE [hit |-> FALSE, state |-> MESI_I]

\* fault: the word offset inside the line is ignored
cache_read_base(c, addr) == c.data[cache_index(addr) * BLOCK_WORDS]

cache_read(c, addr) == c.data[cache_index(addr) * BLOCK_WORDS + (addr % BLOCK_WORDS)]

cache_write(c, addr, data) ==
    [c EXCEPT !.data[cache_index(addr) * BLOCK_WORDS + (addr % BLOCK_WORDS)] = data]

\* ------------------------------------------------------------- bus helpers
reset_bus_out(b) ==
    [b EXCEPT !.bus_cmd_out = BUS_NONE, !.bus_origid_out = 0, !.bus_addr_out = 0,
              !.bus_data_out = 0, !.bus_shared_out = 0]

\* fault: the shared indicator is not consulted
fill_state_exclusive(cmd, shared) == IF cmd = BUS_RD THEN MESI_E ELSE MESI_M

\* fault: a BusRdX on a block that a peer held fills the line in S
fill_state_shared(cmd, shared) ==
    IF shared = 1 THEN MESI_S ELSE IF cmd = BUS_RDX THEN MESI_M ELSE MESI_E

\* MESI state of the requester's line after the fill (line 410)
fill_state(cmd, shared) ==
    IF cmd = BUS_RD THEN (IF shared # 0 THEN MESI_S ELSE MESI_E) ELSE MESI_M

\* fault: the copy of the block to main memory (lines 403-406) is missing
complete_no_mem_write(b, cs, mem) ==
    LET base == block_base(b.addr)
        f == fill_cache_line(cs[b.origin].cache, cache_index(base), cache_tag(base),
                             b.block, fill_state(b.cmd, b.shared), mem)
    IN  [cores |-> [cs EXCEPT ![b.origin].cache = f.cache,
                              ![b.origin].mem.waiting = FALSE],
         mem |-> f.mem]

\* Result: the cores and main memory after the flush completes.
complete_transaction(b, cs, mem) ==
    IF b.origin < 0 \/ b.origin >= NUM_CORES THEN [cores |-> cs, mem |-> mem]
    ELSE LET base == block_base(b.addr)
             mem1 == [a \in DOMAIN mem |->
                         IF \E i \in Offsets : a = (base + i) % MAIN_MEM_WORDS
                         THEN b.block[a - base]
                         ELSE mem[a]]
             c == cs[b.origin]
             f == fill_cache_line(c.cache, cache_index(base), cache_tag(base), b.block,
                                  fill_state(b.cmd, b.shared), mem1)
             m1 == IF c.mem.valid /\ c.mem.waiting
                   THEN [c.mem EXCEPT !.waiting = FALSE] ELSE c.mem
         IN  [cores |-> [cs EXCEPT ![b.origin] = [c EXCEPT !.cache = f.cache, !.mem = m1]],
              mem |-> f.mem]

\* fault: a BusRdX does not invalidate an S copy (lines 441-442 missing)
snoop_keeps_S(cache, cache_id, origin, cmd, addr, acc) ==
    LET idx == cache_index(addr)
        state == cache.state[idx]
    IN  IF cache_id = origin \/ state = MESI_I \/ cache.tag[idx] # cache_tag(addr)
        THEN [cache |-> cache, acc |-> acc]
        ELSE IF state = MESI_M
        THEN [cache |-> [cache EXCEPT !.state[idx] = IF cmd = BUS_RD THEN MESI_S ELSE MESI_I],
              acc |-> [shared |-> 1, provider |-> cache_id,
                       provider_block |-> [i \in Offsets |-> cache.data[idx * BLOCK_WORDS + i]]]]
        ELSE IF state = MESI_E
        THEN [cache |-> [cache EXCEPT !.state[idx] = IF cmd = BUS_RD THEN MESI_S ELSE MESI_I],
              acc |-> [acc EXCEPT !.shared = 1]]
        ELSE [cache |-> cache, acc |-> [acc EXCEPT !.shared = 1]]

\* fault: an E copy is left in E (lines 439-440 missing)
snoop_keeps_E(cache, cache_id, origin, cmd, addr, acc) ==
    LET idx == cache_index(addr)
        state == cache.state[idx]
    IN  IF cache_id = origin \/ state = MESI_I \/ cache.tag[idx] # cache_tag(addr)
        THEN [cache |-> cache, acc |-> acc]
        ELSE IF state = MESI_M
        THEN [cache |-> [cache EXCEPT !.state[idx] = IF cmd = BUS_RD THEN MESI_S ELSE MESI_I],
              acc |-> [shared |-> 1, provider |-> cache_id,
                       provider_block |-> [i \in Offsets |-> cache.data[idx * BLOCK_WORDS + i]]]]
        ELSE IF state = MESI_S /\ cmd = BUS_RDX
        THEN [cache |-> [cache EXCEPT !.state[idx] = MESI_I],
              acc |-> [acc EXCEPT !.shared = 1]]
        ELSE [cache |-> cache, acc |-> [acc EXCEPT !.shared = 1]]

\* fault: an M copy changes state but does not supply its block (lines 431-433 missing)
snoop_no_provider(cache, cache_id, origin, cmd, addr, acc) ==
    LET idx == cache_index(addr)
        state == cache.state[idx]
    IN  IF cache_id = origin \/ state = MESI_I \/ cache.tag[idx] # cache_tag(addr)
        THEN [cache |-> cache, acc |-> acc]
        ELSE IF state = MESI_S /\ cmd = BUS_RD
        THEN [cache |-> cache, acc |-> [acc EXCEPT !.shared = 1]]
        ELSE [cache |-> [cache EXCEPT !.state[idx] = IF cmd = BUS_RD THEN MESI_S ELSE MESI_I],
              acc |-> [acc EXCEPT !.shared = 1]]

\* fault: the origin's own cache is snooped too (lines 421-422 missing)
snoop_origin_too(cache, cache_id, origin, cmd, addr, acc) ==
    LET idx == cache_index(addr)
        state == cache.state[idx]
    IN  IF state = MESI_I \/ cache.tag[idx] # cache_tag(addr)
        THEN [cache |-> cache, acc |-> acc]
        ELSE IF state = MESI_M
        THEN [cache |-> [cache EXCEPT !.state[idx] = IF cmd = BUS_RD THEN MESI_S ELSE MESI_I],
              acc |-> [shared |-> 1, provider |-> cache_id,
                       provider_block |-> [i \in Offsets |-> cache.data[idx * BLOCK_WORDS + i]]]]
        ELSE IF state = MESI_E
        THEN [cache |-> [cache EXCEPT !.state[idx] = IF cmd = BUS_RD THEN MESI_S ELSE MESI_I],
              acc |-> [acc EXCEPT !.shared = 1]]
        ELSE IF state = MESI_S /\ cmd = BUS_RDX
        THEN [cache |-> [cache EXCEPT !.state[idx] = MESI_I],
              acc |-> [acc EXCEPT !.shared = 1]]
        ELSE [cache |-> cache, acc |-> [acc EXCEPT !.shared = 1]]

\* acc carries the out-parameters shared, provider and provider_block.
apply_snoop(cache, cache_id, origin, cmd, addr, acc) ==
    LET idx == cache_index(addr)
        state == cache.state[idx]
    IN  IF cache_id = origin THEN [cache |-> cache, acc |-> acc]
        ELSE IF state = MESI_I \/ cache.tag[idx] # cache_tag(addr)
        THEN [cache |-> cache, acc |-> acc]
        ELSE IF state = MESI_M
        THEN [cache |-> [cache EXCEPT !.state[idx] = IF cmd = BUS_RD THEN MESI_S ELSE MESI_I],
              acc |-> [shared |-> 1, provider |-> cache_id,
                       provider_block |-> [i \in Offsets |-> cache.data[idx * BLOCK_WORDS + i]]]]
        ELSE IF state = MESI_E
        THEN [cache |-> [cache EXCEPT !.state[idx] = IF cmd = BUS_RD THEN MESI_S ELSE MESI_I],
              acc |-> [acc EXCEPT !.shared = 1]]
        ELSE IF state = MESI_S /\ cmd = BUS_RDX
        THEN [cache |-> [cache EXCEPT !.state[idx] = MESI_I],
              acc |-> [acc EXCEPT !.shared = 1]]
        ELSE [cache |-> cache, acc |-> [acc EXCEPT !.shared = 1]]

RECURSIVE SnoopLoop(_, _, _, _)
\* for (i = 0; i < NUM_CORES; i++) apply_snoop(&cores[i].cache, i, ...)
SnoopLoop(i, cs, req, acc) ==
    IF i >= NUM_CORES THEN [cores |-> cs, acc |-> acc]
    ELSE LET r == apply_snoop(cs[i].cache, i, req.origin, req.cmd, req.addr, acc)
         IN  SnoopLoop(i + 1, [cs EXCEPT ![i].cache = r.cache], req, r.acc)

\* Result: the bus and the (snooped) cores.
start_bus_transaction(b, req, cs, mem) ==
    LET s == SnoopLoop(0, cs, req,
                       [shared |-> 0, provider |-> -1,
                        provider_block |-> [i \in Offsets |-> 0]])
        base == block_base(req.addr)
        fromMem == s.acc.provider = -1
        b1 == [b EXCEPT !.cmd = req.cmd, !.origin = req.origin, !.addr = req.addr,
                        !.shared = s.acc.shared,
                        !.provider = IF fromMem THEN 4 ELSE s.acc.provider,
                        !.index = 0,
                        !.block = IF fromMem
                                  THEN [i \in Offsets |-> mem[(base + i) % MAIN_MEM_WORDS]]
                                  ELSE s.acc.provider_block,
                        !.delay = IF fromMem THEN MEM_LATENCY ELSE 0,
                        !.phase = PHASE_WAIT]
    IN  [bus |-> [reset_bus_out(b1) EXCEPT !.bus_cmd_out = req.cmd,
                                           !.bus_origid_out = req.origin,
                                           !.bus_addr_out = req.addr % MAIN_MEM_WORDS,
                                           !.bus_shared_out = s.acc.shared],
         cores |-> s.cores]


\* ------------------------------------------------------------------- state
VARIABLES
    cores,       \* Core cores[NUM_CORES] (without imem and trace_fp)
    imem,        \* cores[i].imem: the loaded words; the words after them are 0
    requests,    \* BusRequest requests[NUM_CORES]
    bus,         \* BusState bus
    rr_next,     \* arbitration pointer
    main_mem,    \* main_mem[], restricted to MemAddrs
    cycle,       \* loop counter of simulate()
    max_cycles,  \* SIM_MAX_CYCLES, -1 when unset
    step,        \* position inside the loop body; "exit" after the break
    bustrace,    \* lines written by write_bus_trace since the latest request line
    \* history variables (observations only, never read by the program)
    committed,   \* word address -> data of the latest SW performed on it
    mem_counts,  \* per core: hit/miss counter increments for the instruction in Memory
    tx_started,  \* number of transactions started
    tx_completed,\* number of transactions completed
    snooped,     \* the latest transaction as seen at its start (before the snoop)
    completed_now, \* TRUE in the state right after complete_transaction ran
    rr_watch,    \* winners since all four cores posted in one cycle with rr_next = 0
    decoded,     \* per core: the instruction the Decode stage evaluated last
    flight,      \* per core: the instructions that left Decode and have not retired
    retire_log,  \* per core: the latest RetireWindow retired instructions
    mem_watch,   \* per core: the stay of the instruction in Memory and of the one before
    replaced,    \* the requester's line as the latest fill found it
    overtaken,   \* per core c and d: transactions started for d since c's latest post
    fetch_log    \* per core: the instructions placed in its Fetch latch, in order

vars == <<cores, imem, requests, bus, rr_next, main_mem, cycle, max_cycles, step,
          bustrace, committed, mem_counts, tx_started, tx_completed, snooped,
          completed_now, rr_watch, decoded, flight, retire_log, mem_watch, replaced,
          overtaken, fetch_log>>

ZeroInst == decode_inst(0, 0)

ZeroStats == [cycles |-> 0, instructions |-> 0, read_hit |-> 0, write_hit |-> 0,
              read_miss |-> 0, write_miss |-> 0, decode_stall |-> 0, mem_stall |-> 0]

ImemWord(prog, pc) == IF pc < Len(prog) THEN prog[pc + 1] ELSE 0

\* Core state after the set-up loop of simulate() (lines 565-582)
InitCore(prog) ==
    LET first == decode_inst(ImemWord(prog, 0), 0)
    IN  [regs |-> [r \in 0..(REG_COUNT - 1) |-> 0],
         pc |-> 1 % IMEM_SIZE,
         redirect_pending |-> FALSE,
         redirect_pc |-> 0,
         stop_fetch |-> (first.op = OP_HALT),
         halted |-> FALSE,
         done |-> FALSE,
         fetch |-> [valid |-> TRUE, inst |-> first],
         decode |-> [valid |-> FALSE, inst |-> ZeroInst],
         exec |-> [valid |-> FALSE, inst |-> ZeroInst, rs_val |-> 0, rt_val |-> 0,
                   rd_val |-> 0],
         mem |-> [valid |-> FALSE, inst |-> ZeroInst, alu_result |-> 0, mem_addr |-> 0,
                  store_data |-> 0, is_load |-> FALSE, is_store |-> FALSE, miss |-> FALSE,
                  waiting |-> FALSE, request_queued |-> FALSE, load_value |-> 0],
         wb |-> [valid |-> FALSE, inst |-> ZeroInst, value |-> 0],
         cache |-> [data |-> [w \in CacheWords |-> 0],
                    tag |-> [l \in Lines |-> 0],
                    state |-> [l \in Lines |-> MESI_I]],
         stats |-> ZeroStats]

ZeroBus == [phase |-> PHASE_IDLE, cmd |-> 0, origin |-> 0, addr |-> 0, shared |-> 0,
            provider |-> 0, block |-> [i \in Offsets |-> 0], delay |-> 0, index |-> 0,
            bus_cmd_out |-> 0, bus_origid_out |-> 0, bus_addr_out |-> 0,
            bus_data_out |-> 0, bus_shared_out |-> 0]

ZeroRequest == [active |-> FALSE, cmd |-> 0, addr |-> 0, origin |-> 0]

\* History of one stay in Memory: the statistics when the instruction entered,
\* the transactions started for it and what the peers held at their snoop.
\* found is the line state at the first lookup (-1 before it), posted the
\* command of the request the instruction posted (BUS_NONE if none).
\* posts counts the requests it wrote to its slot.
ZeroStay == [stats |-> ZeroStats, served |-> <<>>, found |-> -1, posted |-> BUS_NONE,
             posts |-> 0]
\* History of the instruction that left Memory last: what it was, the change of
\* the statistics over its stay, its transactions, and what it left behind.
ZeroLeft == [valid |-> FALSE, pc |-> 0, op |-> 0, addr |-> 0, before |-> ZeroStats,
             after |-> ZeroStats, served |-> <<>>, found |-> -1, posted |-> BUS_NONE,
             posts |-> 0, value |-> 0, state |-> MESI_I,
             line |-> [o \in Offsets |-> 0], block |-> [o \in Offsets |-> 0]]

\* ------------------------------------------------------------------ inputs
\* Instruction words.  R1 mirrors the immediate, so "rs = R0, rt = R1" addresses imm.
Enc(op, rd, rs, rt, imm) ==
    op * 16777216 + rd * 1048576 + rs * 65536 + rt * 4096 + (imm % 4096)
LW(rd, addr) == Enc(OP_LW, rd, 0, 1, addr)
SW(rd, addr) == Enc(OP_SW, rd, 0, 1, addr)
LI(rd, v) == Enc(OP_ADD, rd, 0, 1, v)
HALT == Enc(OP_HALT, 0, 0, 0, 0)
\* Branches take their target from R[rd]; with rd = R1 the target is imm.
\* BEQ R0, R0 is always taken, BNE R0, R0 never.
BEQ(target) == Enc(OP_BEQ, 1, 0, 0, target)
BNE(target) == Enc(OP_BNE, 1, 0, 0, target)
BLT(rs, rt, target) == Enc(OP_BLT, 1, rs, rt, target)
JAL(target) == Enc(OP_JAL, 1, 0, 0, target)

\* Word addresses used by the programs: A and A2 lie in block (tag 0, line 0),
\* B in block (tag 1, line 0), which conflicts with A's line, C in (tag 0, line 1).
AddrA == line_base_addr(0, 0) + 1
AddrA2 == line_base_addr(0, 0) + 2
AddrB == line_base_addr(1, 0) + 1
AddrC == line_base_addr(0, 1) + 1

Programs ==
    [c \in Cores |->
        CASE c = 0 -> {<<LI(3, 10), SW(3, AddrA), LW(2, AddrB), HALT>>,
                       <<LW(2, AddrA), LI(3, 11), SW(3, AddrA), HALT>>,
                       <<LI(3, 12), SW(3, AddrA), LI(4, 13), SW(4, AddrA2), LW(2, AddrC),
                         HALT>>}
          [] c = 1 -> {<<LW(2, AddrA), LI(3, 21), SW(3, AddrA2), HALT>>,
                       <<LI(3, 20), SW(3, AddrB), LW(2, AddrA), HALT>>}
          [] c = 2 -> {<<LW(2, AddrA), HALT>>,
                       <<LI(3, 30), SW(3, AddrA), LW(4, AddrC), HALT>>,
                       <<LW(2, AddrB), LI(3, 31), SW(3, AddrB), LW(4, AddrA), HALT>>}
          [] c = 3 -> {<<LI(3, 40), SW(3, AddrA), HALT>>,
                       <<LW(2, AddrC), LI(3, 41), SW(3, AddrC), HALT>>,
                       <<LI(0, 5), LI(1, 7), HALT>>}]

\* Programs with branches and jumps, run on core 0.
\* A taken branch over an instruction; a branch that is not taken and a JAL whose
\* delay slot misses in the cache; a branch in the delay slot of a taken branch;
\* a branch that waits for its operand; a taken branch whose delay slot is HALT.
BranchPrograms ==
    {<<BEQ(3), LI(2, 5), LI(3, 6), LI(4, 7), HALT>>,
     <<BNE(4), LI(2, 5), JAL(5), LW(3, AddrA), LI(4, 7), SW(3, AddrA2), HALT>>,
     <<BEQ(4), BEQ(6), LI(2, 5), HALT, LI(3, 6), HALT, LI(4, 7), HALT>>,
     <<LI(2, 1), BLT(0, 2, 4), LI(3, 6), LI(4, 7), LI(5, 8), HALT>>,
     <<BEQ(3), HALT, LI(2, 5), LI(4, 7), HALT>>}

\* Programs whose HALT is reached through a redirect; they are run under a
\* cycle cap only.
CappedPrograms ==
    {<<BEQ(3), LI(2, 5), HALT, HALT>>,
     <<JAL(2), LI(2, 5), HALT, LI(3, 6), HALT>>}

\* The programs that run beside a branch program
Beside(p) == [c \in Cores |-> CASE c = 0 -> p [] c = 1 -> <<LW(2, AddrA), HALT>>
                                 [] OTHER -> <<HALT>>]

\* The runs: instruction memories and SIM_MAX_CYCLES (-1 when unset)
Inputs ==
    {[imem |-> [c \in Cores |-> CASE c = 0 -> p0 [] c = 1 -> p1 [] c = 2 -> p2
                                   [] OTHER -> p3],
      max_cycles |-> m] :
        p0 \in Programs[0], p1 \in Programs[1], p2 \in Programs[2],
        p3 \in Programs[3], m \in {-1, MaxCycles}}
    \cup {[imem |-> Beside(p), max_cycles |-> m] :
              p \in BranchPrograms, m \in {-1, MaxCycles}}
    \cup {[imem |-> Beside(p), max_cycles |-> MaxCycles] : p \in CappedPrograms}

\* memin: a memory image with pairwise different words
MemImage == [a \in MemAddrs |-> 1000 + a]

Init ==
    /\ \E in \in Inputs : imem = in.imem /\ max_cycles = in.max_cycles
    /\ cores = [c \in Cores |-> InitCore(imem[c])]
    /\ requests = [c \in Cores |-> ZeroRequest]
    /\ bus = ZeroBus
    /\ rr_next = 0
    /\ main_mem = MemImage
    /\ cycle = 0
    /\ step = "wb"
    /\ bustrace = <<>>
    /\ committed = MemImage
    /\ mem_counts = [c \in Cores |-> [cur |-> 0, last |-> 0, lookups |-> 0, last_lookups |-> 0]]
    /\ tx_started = 0
    /\ tx_completed = 0
    /\ snooped = [cmd |-> BUS_NONE, origin |-> 0, addr |-> 0,
                  held |-> [c \in Cores |-> MESI_I]]
    /\ completed_now = FALSE
    /\ rr_watch = <<-1>>
    /\ decoded = [c \in Cores |-> ZeroInst]
    /\ replaced = Resident(InitCore(<<>>).cache, 0, MemImage)
    /\ overtaken = [c \in Cores |-> [d \in Cores |-> 0]]
    /\ fetch_log = [c \in Cores |-> <<InitCore(imem[c]).fetch.inst>>]
    /\ flight = [c \in Cores |-> <<>>]
    /\ retire_log = [c \in Cores |-> <<>>]
    /\ mem_watch = [c \in Cores |-> [cur |-> ZeroStay, done |-> ZeroLeft]]


\* --------------------------------------------------------- writeback commit
\* lines 603-613, one core
wb_commit(c) ==
    IF ~c.wb.valid THEN c
    ELSE LET dst == dest_reg(c.wb.inst)
         IN  [c EXCEPT !.regs = IF dst >= 0 THEN [@ EXCEPT ![dst] = c.wb.value] ELSE @,
                       !.stats.instructions = @ + 1,
                       !.halted = @ \/ (c.wb.inst.op = OP_HALT)]

\* --------------------------------------------------------- pipeline advance
\* fault: the test !c->done of line 618 is missing
count_cycle_always(c) == c.stats.cycles + 1

\* lines 618-619
count_cycle(c) == IF ~c.done THEN c.stats.cycles + 1 ELSE c.stats.cycles

\* fault: the sticky miss flag is not consulted
counted_never(m) == FALSE

\* line 638: the sticky miss flag says the access was already counted
counted(m) == m.miss

\* fault: a SW to a line in S writes it without asking for the bus
mem_lookup_no_upgrade(c) ==
    LET isMemOp == c.mem.inst.op = OP_LW \/ c.mem.inst.op = OP_SW
        access == c.mem.valid /\ ~c.mem.waiting /\ isMemOp
        lk == cache_lookup(c.cache, c.mem.mem_addr)
        needBus == access /\ (~lk.hit \/ lk.state = MESI_I)
    IN  [isMemOp |-> isMemOp,
         access |-> access,
         isHit |-> lk.hit /\ lk.state # MESI_I,
         state |-> lk.state,
         needBus |-> needBus,
         usable |-> access /\ ~needBus,
         advances |-> c.mem.valid /\ ~c.mem.waiting /\ (~isMemOp \/ ~needBus)]

\* The cache lookup of the Memory stage and what it decides (lines 630-667):
\* access: a LW/SW is looked up this cycle; isHit: the test of line 642;
\* needBus: the test of line 655; advances: mem_advances.
mem_lookup(c) ==
    LET isMemOp == c.mem.inst.op = OP_LW \/ c.mem.inst.op = OP_SW
        access == c.mem.valid /\ ~c.mem.waiting /\ isMemOp
        lk == cache_lookup(c.cache, c.mem.mem_addr)
        needBus == access /\ (~lk.hit \/ lk.state = MESI_I
                              \/ (c.mem.inst.op = OP_SW /\ lk.state = MESI_S))
    IN  [isMemOp |-> isMemOp,
         access |-> access,
         isHit |-> lk.hit /\ lk.state # MESI_I,
         state |-> lk.state,
         needBus |-> needBus,
         usable |-> access /\ ~needBus,
         advances |-> c.mem.valid /\ ~c.mem.waiting /\ (~isMemOp \/ ~needBus)]

\* Statistics after the Memory stage (lines 633, 641-653, 665)
mem_stats(c, lk) ==
    LET isLoad == c.mem.inst.op = OP_LW
        count == lk.access /\ ~counted(c.mem)
    IN  [c.stats EXCEPT
           !.mem_stall = IF c.mem.valid /\ (c.mem.waiting \/ lk.needBus) THEN @ + 1 ELSE @,
           !.read_hit = IF count /\ lk.isHit /\ isLoad THEN @ + 1 ELSE @,
           !.write_hit = IF count /\ lk.isHit /\ ~isLoad THEN @ + 1 ELSE @,
           !.read_miss = IF count /\ ~lk.isHit /\ isLoad THEN @ + 1 ELSE @,
           !.write_miss = IF count /\ ~lk.isHit /\ ~isLoad THEN @ + 1 ELSE @]

\* fault: a SW that hits a line in E leaves it in E (lines 677-678 missing)
mem_cache_keeps_E(c, lk) ==
    IF lk.usable /\ c.mem.inst.op = OP_SW
    THEN cache_write(c.cache, c.mem.mem_addr, c.mem.store_data)
    ELSE c.cache

\* The core's cache after the Memory stage: a usable SW writes (lines 676-678)
mem_cache(c, lk) ==
    IF lk.usable /\ c.mem.inst.op = OP_SW
    THEN [cache_write(c.cache, c.mem.mem_addr, c.mem.store_data) EXCEPT
            !.state[cache_index(c.mem.mem_addr)] = IF lk.state = MESI_E THEN MESI_M ELSE @]
    ELSE c.cache

\* next_wb (lines 621, 668-692)
mem_next_wb(c, lk) ==
    IF lk.advances
    THEN [valid |-> TRUE, inst |-> c.mem.inst,
          value |-> IF ~lk.isMemOp THEN c.mem.alu_result
                    ELSE IF c.mem.inst.op = OP_LW THEN cache_read(c.cache, c.mem.mem_addr)
                    ELSE 0]
    ELSE [valid |-> FALSE, inst |-> ZeroInst, value |-> 0]

\* next_mem as the Memory stage leaves it (lines 622, 663-664, 669-690).
\* next_mem is a copy of c->mem taken before line 661 sets c->mem.request_queued,
\* and line 812 overwrites c->mem with it: the flag does not survive the cycle.
mem_next_mem(c, lk) ==
    IF lk.needBus THEN [c.mem EXCEPT !.miss = TRUE, !.waiting = TRUE]
    ELSE IF lk.advances
    THEN [c.mem EXCEPT !.valid = FALSE,
                       !.load_value = IF c.mem.inst.op = OP_LW
                                      THEN cache_read(c.cache, c.mem.mem_addr) ELSE @]
    ELSE c.mem

\* The request written to requests[i] (lines 657-660)
mem_request(c, i) ==
    [active |-> TRUE, cmd |-> IF c.mem.inst.op = OP_LW THEN BUS_RD ELSE BUS_RDX,
     addr |-> c.mem.mem_addr % MAIN_MEM_WORDS, origin |-> i]

\* next_mem after the Execute stage (lines 701-721); nm is mem_next_mem
exec_next_mem(c, nm, exec_can_move) ==
    LET isMemOp == c.exec.inst.op = OP_LW \/ c.exec.inst.op = OP_SW
    IN  IF exec_can_move
        THEN [valid |-> TRUE, inst |-> c.exec.inst, waiting |-> FALSE,
              request_queued |-> FALSE, miss |-> FALSE, load_value |-> 0,
              alu_result |-> IF isMemOp THEN 0
                             ELSE perform_alu(c.exec.inst, c.exec.rs_val, c.exec.rt_val),
              mem_addr |-> IF isMemOp
                           THEN Add32(c.exec.rs_val, c.exec.rt_val) % MAIN_MEM_WORDS
                           ELSE nm.mem_addr,
              store_data |-> IF isMemOp THEN c.exec.rd_val ELSE nm.store_data,
              is_load |-> c.exec.inst.op = OP_LW,
              is_store |-> c.exec.inst.op = OP_SW]
        ELSE nm

\* lines 725-726 (and again 780): R1 mirrors the immediate of the instruction in Decode
decode_regs(c) ==
    IF c.decode.valid THEN [c.regs EXCEPT ![1] = c.decode.inst.imm] ELSE c.regs

\* fault: the Memory latch is not examined
hazard_skips_mem(c) ==
    \E reg \in source_regs(c.decode.inst) :
        /\ reg > 1
        /\ \/ c.exec.valid /\ dest_reg(c.exec.inst) = reg
           \/ c.wb.valid /\ dest_reg(c.wb.inst) = reg

\* lines 731-742: an in-flight writer of a source register
hazard(c) ==
    \E reg \in source_regs(c.decode.inst) :
        /\ reg > 1
        /\ \/ c.exec.valid /\ dest_reg(c.exec.inst) = reg
           \/ c.mem.valid /\ dest_reg(c.mem.inst) = reg
           \/ c.wb.valid /\ dest_reg(c.wb.inst) = reg

\* fault: the Fetch latch moves into Decode although Decode is held
controls_fetch_pushes(c, mem_advances) ==
    LET exec_can_move == c.exec.valid /\ ((~c.mem.valid) \/ mem_advances)
        exec_free_next == (~c.exec.valid) \/ exec_can_move
        decode_stall == c.decode.valid /\ (hazard(c) \/ ~exec_free_next)
        decode_moves == c.decode.valid /\ ~decode_stall
    IN  [exec_can_move |-> exec_can_move,
         decode_stall |-> decode_stall,
         decode_moves |-> decode_moves,
         decode_free_next |-> (~c.decode.valid) \/ decode_moves,
         fetch_moves |-> c.fetch.valid]

\* The stall and move signals (lines 696-698, 724-751)
controls(c, mem_advances) ==
    LET exec_can_move == c.exec.valid /\ ((~c.mem.valid) \/ mem_advances)
        exec_free_next == (~c.exec.valid) \/ exec_can_move
        decode_stall == c.decode.valid /\ (hazard(c) \/ ~exec_free_next)
        decode_moves == c.decode.valid /\ ~decode_stall
    IN  [exec_can_move |-> exec_can_move,
         decode_stall |-> decode_stall,
         decode_moves |-> decode_moves,
         decode_free_next |-> (~c.decode.valid) \/ decode_moves,
         fetch_moves |-> c.fetch.valid /\ ((~c.decode.valid) \/ decode_moves)]

\* lines 762-776: the advancing instruction redirects the fetch
redirects(c, regs1, decode_moves) ==
    decode_moves /\
       \/ IsBranch(c.decode.inst.op)
             /\ perform_compare(c.decode.inst, regs1[c.decode.inst.rs],
                                regs1[c.decode.inst.rt])
       \/ c.decode.inst.op = OP_JAL

\* fault: after a redirected fetch the next PC is the target itself
fetch_stage_refetch(c, prog, ctl, rp, rpc) ==
    LET fetches == ~c.stop_fetch /\ ctl.decode_free_next
        fetch_pc == IF rp THEN rpc ELSE c.pc
        fetched == decode_inst(ImemWord(prog, fetch_pc), fetch_pc)
    IN  [next_fetch |-> IF fetches THEN [valid |-> TRUE, inst |-> fetched]
                        ELSE IF ctl.fetch_moves THEN [c.fetch EXCEPT !.valid = FALSE]
                        ELSE c.fetch,
         pc |-> IF fetches THEN (IF rp THEN rpc ELSE (c.pc + 1) % IMEM_SIZE) ELSE c.pc,
         redirect_pending |-> IF fetches THEN FALSE ELSE rp,
         stop_fetch |-> c.stop_fetch \/ (fetches /\ ~rp /\ fetched.op = OP_HALT)]

\* The Fetch stage (lines 791-809): rp, rpc are redirect_pending and redirect_pc
\* as Decode left them.
fetch_stage(c, prog, ctl, rp, rpc) ==
    LET fetches == ~c.stop_fetch /\ ctl.decode_free_next
        fetch_pc == IF rp THEN rpc ELSE c.pc
        fetched == decode_inst(ImemWord(prog, fetch_pc), fetch_pc)
    IN  [next_fetch |-> IF fetches THEN [valid |-> TRUE, inst |-> fetched]
                        ELSE IF ctl.fetch_moves THEN [c.fetch EXCEPT !.valid = FALSE]
                        ELSE c.fetch,
         pc |-> IF fetches THEN (fetch_pc + 1) % IMEM_SIZE ELSE c.pc,
         redirect_pending |-> IF fetches THEN FALSE ELSE rp,
         stop_fetch |-> c.stop_fetch \/ (fetches /\ ~rp /\ fetched.op = OP_HALT)]

\* fault: a taken branch or JAL squashes the instruction behind it
decode_latch_squash(c, ctl) ==
    IF ctl.fetch_moves /\ ~redirects(c, decode_regs(c), ctl.decode_moves)
    THEN [valid |-> TRUE, inst |-> c.fetch.inst]
    ELSE IF ctl.decode_moves \/ ~ctl.decode_stall THEN [c.decode EXCEPT !.valid = FALSE]
    ELSE c.decode

\* next_decode (lines 781-788): the Fetch latch's instruction moves to Decode
decode_latch(c, ctl) ==
    IF ctl.fetch_moves THEN [valid |-> TRUE, inst |-> c.fetch.inst]
    ELSE IF ctl.decode_moves \/ ~ctl.decode_stall THEN [c.decode EXCEPT !.valid = FALSE]
    ELSE c.decode

\* The latches and flags at the end of the core's iteration (lines 753-819)
latch(c, lk, ctl, regs1, next_mem, ft, redir) ==
    LET dinst == c.decode.inst
        next_wb == mem_next_wb(c, lk)
        next_exec == IF ctl.decode_moves
                     THEN [valid |-> TRUE, inst |-> dinst, rs_val |-> regs1[dinst.rs],
                           rt_val |-> regs1[dinst.rt], rd_val |-> regs1[dinst.rd]]
                     ELSE IF ctl.exec_can_move THEN [c.exec EXCEPT !.valid = FALSE]
                     ELSE c.exec
        next_decode == decode_latch(c, ctl)
        any_valid == ft.next_fetch.valid \/ next_decode.valid \/ next_exec.valid
                     \/ next_mem.valid \/ next_wb.valid
    IN  [c EXCEPT
           !.stats = [mem_stats(c, lk) EXCEPT
                        !.cycles = count_cycle(c),
                        !.decode_stall = IF ctl.decode_stall THEN @ + 1 ELSE @],
           !.cache = mem_cache(c, lk),
           !.regs = regs1,
           !.redirect_pending = ft.redirect_pending,
           !.redirect_pc = IF redir THEN regs1[dinst.rd] % IMEM_SIZE ELSE @,
           !.pc = ft.pc,
           !.stop_fetch = ft.stop_fetch,
           !.wb = next_wb,
           !.mem = next_mem,
           !.exec = next_exec,
           !.decode = next_decode,
           !.fetch = ft.next_fetch,
           !.done = @ \/ (c.halted /\ ~any_valid)]

core_after(c, prog, lk, ctl, regs1, redir) ==
    latch(c, lk, ctl, regs1,
          exec_next_mem(c, mem_next_mem(c, lk), ctl.exec_can_move),
          fetch_stage(c, prog, ctl, c.redirect_pending \/ redir,
                      IF redir THEN regs1[c.decode.inst.rd] % IMEM_SIZE ELSE c.redirect_pc),
          redir)

core_with(c, prog, lk, ctl, regs1) ==
    core_after(c, prog, lk, ctl, regs1, redirects(c, regs1, ctl.decode_moves))

step_with(c, prog, i, lk, ctl) ==
    [core |-> core_with(c, prog, lk, ctl, decode_regs(c)),
     posts |-> lk.needBus /\ ~c.mem.request_queued,
     req |-> mem_request(c, i),
     stores |-> lk.usable /\ c.mem.inst.op = OP_SW,
     store_addr |-> c.mem.mem_addr,
     store_data |-> c.mem.store_data,
     mem_entered |-> ctl.exec_can_move,
     mem_left |-> lk.advances,
     fetches |-> ~c.stop_fetch /\ ctl.decode_free_next,
     looks |-> lk.access]

step_lookup(c, prog, i, lk) == step_with(c, prog, i, lk, controls(c, lk.advances))

\* One core's iteration of the pipeline loop, lines 616-820.
\* Result: the core, and whether and what it posted in requests[i].
pipeline_core(c, prog, i) == step_lookup(c, prog, i, mem_lookup(c))

\* MESI state in which cache c holds the block of addr (MESI_I when it does not)
HeldState(c, addr) == cache_lookup(c, addr).state

\* ----------------------------------------------------------------- actions
\* The instruction of core c that leaves Decode this cycle (lines 753-776):
\* whether it redirects the fetch, and where to.
Issues(c) == controls(c, mem_lookup(c).advances).decode_moves
Issued(c) ==
    [pc |-> c.decode.inst.pc, op |-> c.decode.inst.op, dst |-> dest_reg(c.decode.inst),
     taken |-> redirects(c, decode_regs(c), Issues(c)),
     target |-> decode_regs(c)[c.decode.inst.rd] % IMEM_SIZE]

\* The instruction that Writeback commits for core i (lines 603-613), with what
\* was recorded when it left Decode.
Retired(i) ==
    [pc |-> cores[i].wb.inst.pc, op |-> cores[i].wb.inst.op,
     issued_pc |-> Head(flight[i]).pc,
     taken |-> Head(flight[i]).taken, target |-> Head(flight[i]).target,
     dst |-> dest_reg(cores[i].wb.inst), value |-> cores[i].wb.value]

LatestRetired(log) ==
    IF Len(log) > RetireWindow THEN SubSeq(log, Len(log) - RetireWindow + 1, Len(log))
    ELSE log

\* Loop top: reset_bus_out (line 596), core traces, WB commit (lines 603-613)
WritebackCommit ==
    /\ step = "wb"
    /\ cores' = [i \in Cores |-> wb_commit(cores[i])]
    /\ bus' = reset_bus_out(bus)
    /\ completed_now' = FALSE
    /\ flight' = [i \in Cores |-> IF cores[i].wb.valid THEN Tail(flight[i]) ELSE flight[i]]
    /\ retire_log' = [i \in Cores |-> IF cores[i].wb.valid
                                      THEN LatestRetired(Append(retire_log[i], Retired(i)))
                                      ELSE retire_log[i]]
    /\ step' = "pipe"
    /\ UNCHANGED <<imem, requests, rr_next, main_mem, cycle, max_cycles, bustrace,
                   committed, mem_counts, tx_started, tx_completed, snooped, rr_watch,
                   decoded, mem_watch, replaced, overtaken, fetch_log>>

\* The stay of the instruction in Memory of core i after this cycle's lookup
\* (lines 638-661); posts says that it posts its request this cycle.
Looked(i, posts) ==
    [mem_watch[i].cur EXCEPT
       !.found = IF @ = -1 /\ mem_lookup(cores[i]).access
                 THEN mem_lookup(cores[i]).state ELSE @,
       !.posted = IF posts THEN mem_request(cores[i], i).cmd ELSE @,
       !.posts = IF posts THEN @ + 1 ELSE @]

\* The record of the instruction that leaves Memory of core i this cycle; c1 is
\* the core after the step.
Left(i, c1) ==
    [valid |-> TRUE, pc |-> cores[i].mem.inst.pc, op |-> cores[i].mem.inst.op,
     addr |-> cores[i].mem.mem_addr,
     before |-> mem_watch[i].cur.stats, after |-> c1.stats,
     served |-> mem_watch[i].cur.served,
     found |-> Looked(i, FALSE).found, posted |-> mem_watch[i].cur.posted,
     posts |-> mem_watch[i].cur.posts,
     value |-> c1.wb.value,
     state |-> HeldState(c1.cache, cores[i].mem.mem_addr),
     line |-> [o \in Offsets |->
                  c1.cache.data[cache_index(cores[i].mem.mem_addr) * BLOCK_WORDS + o]],
     block |-> [o \in Offsets |-> main_mem[block_base(cores[i].mem.mem_addr) + o]]]

HitMissSum(st) == st.read_hit + st.read_miss + st.write_hit + st.write_miss

\* The data of the SW that the highest-numbered core performs on word a this cycle
StoredBy(r, a, old) ==
    LET S == {i \in Cores : r[i].stores /\ r[i].store_addr = a}
    IN  IF S = {} THEN old ELSE r[CHOOSE i \in S : \A j \in S : j <= i].store_data

PipelineResult(r) ==
    /\ cores' = [i \in Cores |-> r[i].core]
    /\ requests' = [i \in Cores |-> IF r[i].posts THEN r[i].req ELSE requests[i]]
    /\ committed' = [a \in DOMAIN committed |-> StoredBy(r, a, committed[a])]
    /\ mem_counts' =
          [i \in Cores |->
              [cur |-> IF r[i].mem_entered THEN 0
                       ELSE mem_counts[i].cur + HitMissSum(r[i].core.stats)
                                              - HitMissSum(cores[i].stats),
               last |-> IF r[i].mem_left
                        THEN mem_counts[i].cur + HitMissSum(r[i].core.stats)
                                               - HitMissSum(cores[i].stats)
                        ELSE mem_counts[i].last,
               lookups |-> IF r[i].mem_entered THEN 0
                           ELSE mem_counts[i].lookups + (IF r[i].looks THEN 1 ELSE 0),
               last_lookups |-> IF r[i].mem_left
                                THEN mem_counts[i].lookups + (IF r[i].looks THEN 1 ELSE 0)
                                ELSE mem_counts[i].last_lookups]]
    /\ decoded' = [i \in Cores |->
                      IF cores[i].decode.valid THEN cores[i].decode.inst ELSE decoded[i]]
    /\ rr_watch' = IF rr_next = 0 /\ \A i \in Cores : r[i].posts /\ ~requests[i].active
                   THEN <<>> ELSE rr_watch
    /\ flight' = [i \in Cores |-> IF Issues(cores[i])
                                  THEN Append(flight[i], Issued(cores[i])) ELSE flight[i]]
    /\ fetch_log' = [i \in Cores |-> IF r[i].fetches
                                     THEN Append(fetch_log[i], r[i].core.fetch.inst)
                                     ELSE fetch_log[i]]
    /\ overtaken' = [i \in Cores |-> IF r[i].posts THEN [d \in Cores |-> 0]
                                     ELSE overtaken[i]]
    /\ mem_watch' =
          [i \in Cores |->
              [cur |-> IF r[i].mem_entered THEN [ZeroStay EXCEPT !.stats = r[i].core.stats]
                       ELSE Looked(i, r[i].posts),
               done |-> IF r[i].mem_left THEN Left(i, r[i].core) ELSE mem_watch[i].done]]

\* Pipeline next-state computation for all cores (lines 616-820)
PipelineAdvance ==
    /\ step = "pipe"
    /\ PipelineResult([i \in Cores |-> pipeline_core(cores[i], imem[i], i)])
    /\ step' = "arb"
    /\ UNCHANGED <<imem, bus, rr_next, main_mem, cycle, max_cycles, bustrace,
                   tx_started, tx_completed, snooped, completed_now, retire_log,
                   replaced>>

RECURSIVE scan_fixed_priority(_, _, _)
\* fault: the scan starts at slot 0 instead of rr_next
scan_fixed_priority(reqs, rr, k) ==
    IF k >= NUM_CORES THEN -1
    ELSE IF reqs[k].active THEN k
    ELSE scan_fixed_priority(reqs, rr, k + 1)

RECURSIVE scan_requests(_, _, _)
\* lines 824-831: first active slot in round-robin order from rr, -1 if none
scan_requests(reqs, rr, k) ==
    IF k >= NUM_CORES THEN -1
    ELSE IF reqs[(rr + k) % NUM_CORES].active THEN (rr + k) % NUM_CORES
    ELSE scan_requests(reqs, rr, k + 1)

\* fault: the test bus.phase == 0 of line 823 is missing
bus_may_start_always(b) == TRUE

\* line 823
bus_may_start(b) == b.phase = PHASE_IDLE

\* lines 843-847 and 851-855: the Flush word driven this cycle
flush_out(b) ==
    [b EXCEPT !.bus_cmd_out = BUS_FLUSH,
              !.bus_origid_out = b.provider,
              !.bus_addr_out = block_base(b.addr) + b.index,
              !.bus_data_out = b.block[b.index],
              !.bus_shared_out = b.shared]

\* fault: the Flush starts without waiting for the latency counter
drive_bus_no_wait(b) ==
    IF b.phase = PHASE_FLUSH THEN flush_out(b)
    ELSE IF b.phase = PHASE_WAIT /\ b.bus_cmd_out = BUS_NONE
    THEN flush_out([b EXCEPT !.phase = PHASE_FLUSH, !.index = 0])
    ELSE b

\* lines 842-856: the outputs driven this cycle
drive_bus(b) ==
    IF b.phase = PHASE_FLUSH THEN flush_out(b)
    ELSE IF b.phase = PHASE_WAIT /\ b.delay = 0 /\ b.bus_cmd_out = BUS_NONE
    THEN flush_out([b EXCEPT !.phase = PHASE_FLUSH, !.index = 0])
    ELSE b

\* write_bus_trace (lines 514-519)
trace_line(b) ==
    [cycle |-> cycle, origid |-> b.bus_origid_out, cmd |-> b.bus_cmd_out,
     addr |-> b.bus_addr_out % MAIN_MEM_WORDS, data |-> b.bus_data_out,
     shared |-> b.bus_shared_out]

\* The bus outputs are driven and traced (lines 842-858)
DriveAndTrace(b) ==
    /\ bus' = drive_bus(b)
    /\ bustrace' = IF drive_bus(b).bus_cmd_out = BUS_NONE THEN bustrace
                   ELSE IF drive_bus(b).bus_cmd_out = BUS_FLUSH
                   THEN Append(bustrace, trace_line(drive_bus(b)))
                   ELSE <<trace_line(drive_bus(b))>>

\* fault: the pointer returns to slot 0 after every grant
next_pointer_stuck(chosen) == 0

\* line 833: the pointer moves to one past the winner
next_pointer(chosen) == (chosen + 1) % NUM_CORES

\* lines 833-837: the winner's transaction starts
StartTransaction(chosen, st) ==
    /\ cores' = st.cores
    /\ requests' = [requests EXCEPT ![chosen].active = FALSE]
    /\ rr_next' = next_pointer(chosen)
    /\ overtaken' = [c \in Cores |->
                        IF requests[c].active /\ c # chosen
                        THEN [overtaken[c] EXCEPT ![chosen] = @ + 1] ELSE overtaken[c]]
    /\ DriveAndTrace(st.bus)
    /\ tx_started' = tx_started + 1
    /\ snooped' = [cmd |-> requests[chosen].cmd, origin |-> requests[chosen].origin,
                   addr |-> requests[chosen].addr,
                   held |-> [c \in Cores |->
                                HeldState(cores[c].cache, requests[chosen].addr)]]
    /\ rr_watch' = IF rr_watch # <<-1>> /\ Len(rr_watch) < NUM_CORES
                   THEN Append(rr_watch, chosen) ELSE rr_watch
    /\ mem_watch' = [mem_watch EXCEPT ![requests[chosen].origin].cur.served =
                        Append(@, [cmd |-> requests[chosen].cmd,
                                   cycle |-> cycle,
                                   held |-> {HeldState(cores[c].cache, requests[chosen].addr) :
                                                c \in Cores \ {requests[chosen].origin}}])]

Arbitrate(chosen) ==
    IF chosen # -1
    THEN StartTransaction(chosen,
                          start_bus_transaction(bus, requests[chosen], cores, main_mem))
    ELSE /\ DriveAndTrace(bus)
         /\ UNCHANGED <<cores, requests, rr_next, tx_started, snooped, rr_watch,
                        mem_watch, overtaken>>

\* Arbitration, transaction start, bus outputs and bus trace (lines 822-858)
BusArbitrate ==
    /\ step = "arb"
    /\ Arbitrate(IF bus_may_start(bus) THEN scan_requests(requests, rr_next, 0) ELSE -1)
    /\ step' = "adv"
    /\ UNCHANGED <<imem, main_mem, cycle, max_cycles, committed, mem_counts,
                   tx_completed, completed_now, decoded, flight, retire_log, replaced,
                   fetch_log>>

\* lines 861-865: latency countdown or next flush word
advance_bus(b) ==
    IF b.phase = PHASE_WAIT /\ b.delay > 0 THEN [b EXCEPT !.delay = @ - 1]
    ELSE IF b.phase = PHASE_FLUSH /\ b.bus_cmd_out = BUS_FLUSH THEN [b EXCEPT !.index = @ + 1]
    ELSE b

\* fault: the transaction completes one word early
flush_done_early(b) ==
    ~(b.phase = PHASE_WAIT /\ b.delay > 0)
    /\ b.phase = PHASE_FLUSH /\ b.bus_cmd_out = BUS_FLUSH
    /\ b.index + 2 >= BLOCK_WORDS

\* lines 863-865: the flush just streamed its last word
flush_done(b) ==
    ~(b.phase = PHASE_WAIT /\ b.delay > 0)
    /\ b.phase = PHASE_FLUSH /\ b.bus_cmd_out = BUS_FLUSH
    /\ b.index + 1 >= BLOCK_WORDS

\* lines 872-884: the loop's exit tests, on the cores cs and the bus b
LoopEnd(cs, b) ==
    LET timeout == max_cycles >= 0 /\ cycle >= max_cycles
        all_done == \A i \in Cores : cs[i].done
    IN  IF timeout \/ (all_done /\ b.phase = PHASE_IDLE)
        THEN cycle' = cycle /\ step' = "exit"
        ELSE cycle' = cycle + 1 /\ step' = "wb"

Complete(b, ct) ==
    /\ bus' = [b EXCEPT !.phase = PHASE_IDLE, !.cmd = BUS_NONE]
    /\ replaced' = Resident(cores[b.origin].cache, b.addr, main_mem)
    /\ cores' = ct.cores
    /\ main_mem' = ct.mem
    /\ tx_completed' = tx_completed + 1
    /\ completed_now' = TRUE
    /\ LoopEnd(ct.cores, [b EXCEPT !.phase = PHASE_IDLE])

\* Bus timing advance and the loop's exit tests (lines 860-885)
BusAdvance ==
    /\ step = "adv"
    /\ IF flush_done(bus)
       THEN Complete(advance_bus(bus), complete_transaction(advance_bus(bus), cores, main_mem))
       ELSE /\ bus' = advance_bus(bus)
            /\ completed_now' = FALSE
            /\ LoopEnd(cores, advance_bus(bus))
            /\ UNCHANGED <<cores, main_mem, tx_completed, replaced>>
    /\ UNCHANGED <<imem, requests, rr_next, max_cycles, bustrace, committed, mem_counts,
                   tx_started, snooped, rr_watch, decoded, flight, retire_log,
                   mem_watch, overtaken, fetch_log>>

Next == WritebackCommit \/ PipelineAdvance \/ BusArbitrate \/ BusAdvance

Spec == Init /\ [][Next]_vars

\* The positions of the loop body, and the move from one to the next.  Every
\* step of Next is such a move, and one is possible exactly when Next is.
Steps == {"wb", "pipe", "arb", "adv", "exit"}
LoopBody == step # "exit" /\ step' \in Steps \ {step}

\* The loop of simulate() keeps iterating until one of its break tests holds
\* (lines 595, 872-884): a step that is possible is taken.
FairSpec == Spec /\ WF_step(LoopBody)

\* ------------------------------------------------------------------ claims
State(c, l) == cores[c].cache.state[l]
TagOf(c, l) == cores[c].cache.tag[l]
\* cache c holds the block (t, l)
Holds(c, t, l) == State(c, l) # MESI_I /\ TagOf(c, l) = t
BlockWords(t, l) == {line_base_addr(t, l) + o : o \in Offsets}
LineData(c, l) == [o \in Offsets |-> cores[c].cache.data[l * BLOCK_WORDS + o]]
NoLatchValid(c) ==
    ~(cores[c].fetch.valid \/ cores[c].decode.valid \/ cores[c].exec.valid
      \/ cores[c].mem.valid \/ cores[c].wb.valid)

\* C1: for every block, a cache that holds it in M or E is the only cache that
\* holds it: every other cache has it invalid (state I or another tag).
C1_SingleModifier ==
    \A c \in Cores, l \in Lines :
        State(c, l) \in {MESI_M, MESI_E} =>
            \A d \in Cores \ {c} : ~Holds(d, TagOf(c, l), l)

\* C1 witness: one cache holds a block in M that another cache was filled with
\* and then lost to the snoop.
C1_Witness ==
    \E c \in Cores, d \in Cores, l \in Lines :
        /\ c # d
        /\ State(c, l) = MESI_M
        /\ State(d, l) = MESI_I /\ TagOf(d, l) = TagOf(c, l)
        /\ \E o \in Offsets : LineData(d, l)[o] # 0

\* C2 as stated: whenever no cache holds block B in M, main memory of B equals
\* the last committed values.
C2_MemoryFresh_AsStated ==
    \A t \in Tags, l \in Lines :
        (\A c \in Cores : ~(Holds(c, t, l) /\ State(c, l) = MESI_M)) =>
            \A a \in BlockWords(t, l) : main_mem[a] = committed[a]

\* a transaction for block (t, l) is in flight whose data a peer cache supplies
CacheToCacheInFlight(t, l) ==
    /\ bus.phase # PHASE_IDLE
    /\ bus.provider # 4
    /\ block_base(bus.addr) = line_base_addr(t, l)

\* C2 amended: whenever no cache holds block B in M and no cache-supplied
\* transaction for B is in flight, main memory of B equals the last committed
\* values.
C2_MemoryFresh ==
    \A t \in Tags, l \in Lines :
        (/\ \A c \in Cores : ~(Holds(c, t, l) /\ State(c, l) = MESI_M)
         /\ ~CacheToCacheInFlight(t, l)) =>
            \A a \in BlockWords(t, l) : main_mem[a] = committed[a]

\* C2 witness: a stored block that no cache holds in M any more, with memory
\* brought up to date.
C2_Witness ==
    \E t \in Tags, l \in Lines :
        /\ \A c \in Cores : ~(Holds(c, t, l) /\ State(c, l) = MESI_M)
        /\ ~CacheToCacheInFlight(t, l)
        /\ \E a \in BlockWords(t, l) : committed[a] # MemImage[a] /\ main_mem[a] = committed[a]

\* C3: at most one transaction is in flight, and a core whose Memory latch is
\* waiting has its request slot active or is the origin of the transaction in
\* flight.
C3_BusExclusive ==
    /\ tx_started - tx_completed \in {0, 1}
    /\ (tx_started - tx_completed = 1) <=> (bus.phase # PHASE_IDLE)
    /\ \A c \in Cores :
          cores[c].mem.waiting =>
              \/ bus.phase # PHASE_IDLE /\ bus.origin = c
              \/ requests[c].active

\* C3 witness: a core waits with its request still queued behind another
\* core's transaction.
C3_Witness ==
    \E c \in Cores :
        /\ cores[c].mem.valid /\ cores[c].mem.waiting /\ requests[c].active
        /\ bus.phase # PHASE_IDLE /\ bus.origin # c

\* C4 as stated: R0 is 0 and R1 is the immediate of the instruction in the
\* Decode latch (the latch keeps its last instruction when it is empty).
C4_R1Mirror_AsStated ==
    \A c \in Cores :
        /\ cores[c].regs[0] = 0
        /\ cores[c].regs[1] = cores[c].decode.inst.imm

\* C4 amended: R0 is 0 and R1 is the immediate of the instruction that the
\* Decode stage evaluated last (0 before the first); an instruction latched
\* into Decode at the end of a cycle is mirrored only by the next cycle's
\* Decode evaluation.
C4_R1Mirror ==
    \A c \in Cores :
        /\ cores[c].regs[0] = 0
        /\ cores[c].regs[1] = decoded[c].imm

\* C4 witness: the Decode latch was reloaded and R1 still mirrors the previous
\* occupant's non-zero immediate.
C4_Witness ==
    \E c \in Cores :
        /\ cores[c].decode.valid
        /\ cores[c].regs[1] # 0
        /\ cores[c].regs[1] # cores[c].decode.inst.imm
        /\ cores[c].regs[1] = decoded[c].imm

\* C5: over the stay of one LW or SW in Memory the hit and miss counters of
\* its core increase by at most 1 in total.
C5_CountedOnce ==
    \A c \in Cores : mem_counts[c].cur <= 1 /\ mem_counts[c].last <= 1

\* C5 witness: an instruction left Memory after it missed, waited and was
\* looked up again, counted once.
C5_Witness ==
    \E c \in Cores :
        /\ mem_counts[c].last_lookups >= 2
        /\ mem_counts[c].last = 1
        /\ cores[c].stats.mem_stall > 0

\* C6: the cycles counter of a core that is done (HALT retired, all latches
\* empty) never changes again, and the counter of a core that is not done is
\* incremented by every pipeline step.
C6_CyclesStop ==
    [][\A c \in Cores :
          /\ (cores[c].halted /\ NoLatchValid(c)) =>
                cores'[c].stats.cycles = cores[c].stats.cycles
          /\ (step = "pipe" /\ ~(cores[c].halted /\ NoLatchValid(c))) =>
                cores'[c].stats.cycles = cores[c].stats.cycles + 1]_vars

\* C6 witness: a done core whose counter stayed behind that of a running core.
C6_Witness ==
    \E c \in Cores, d \in Cores :
        /\ cores[c].halted /\ NoLatchValid(c) /\ cores[c].done
        /\ ~cores[d].done
        /\ cores[c].stats.cycles + 2 <= cores[d].stats.cycles

\* the peer that held the block of the latest transaction in M at its start
MHolders == {p \in Cores : snooped.held[p] = MESI_M}
FlushLines == {k \in 1..Len(bustrace) : bustrace[k].cmd = BUS_FLUSH}
SnoopedLine == cache_index(snooped.addr)

\* C8: a BusRd for a block that peer p holds in M is followed on the bus by
\* exactly 8 Flush words from p with shared = 1; at completion p and the
\* requester hold the block in S and main memory holds p's data.
C8_ModifiedSupplies ==
    /\ Len(bustrace) <= 1 + BLOCK_WORDS
    /\ (completed_now /\ snooped.cmd = BUS_RD /\ MHolders # {}) =>
          /\ Len(bustrace) = 1 + BLOCK_WORDS
          /\ bustrace[1].cmd = BUS_RD /\ bustrace[1].origid = snooped.origin
          /\ \A k \in 1..BLOCK_WORDS :
                /\ bustrace[k + 1].cmd = BUS_FLUSH
                /\ bustrace[k + 1].origid \in MHolders
                /\ bustrace[k + 1].shared = 1
                /\ bustrace[k + 1].addr = block_base(snooped.addr) + k - 1
                /\ bustrace[k + 1].data = committed[block_base(snooped.addr) + k - 1]
          /\ \A p \in MHolders : HeldState(cores[p].cache, snooped.addr) = MESI_S
          /\ HeldState(cores[snooped.origin].cache, snooped.addr) = MESI_S
          /\ \A p \in MHolders, o \in Offsets :
                /\ main_mem[block_base(snooped.addr) + o] = LineData(p, SnoopedLine)[o]
                /\ main_mem[block_base(snooped.addr) + o]
                      = committed[block_base(snooped.addr) + o]

\* C8 witness: such a BusRd completed and memory shows the peer's store.
C8_Witness ==
    /\ completed_now /\ snooped.cmd = BUS_RD /\ MHolders # {}
    /\ \E o \in Offsets :
          main_mem[block_base(snooped.addr) + o] # MemImage[block_base(snooped.addr) + o]

\* C9: when a BusRdX completes, the requester holds the block in M and every
\* other cache has it invalid, whatever the peers held; without a peer in M
\* all Flush words carry origid 4.
C9_ReadExclusive ==
    (completed_now /\ snooped.cmd = BUS_RDX) =>
        /\ HeldState(cores[snooped.origin].cache, snooped.addr) = MESI_M
        /\ \A p \in Cores \ {snooped.origin} :
              /\ HeldState(cores[p].cache, snooped.addr) = MESI_I
              /\ snooped.held[p] # MESI_I => State(p, SnoopedLine) = MESI_I
        /\ MHolders = {} => \A k \in FlushLines : bustrace[k].origid = 4
        /\ Cardinality(FlushLines) = BLOCK_WORDS

\* C9 witness: a BusRdX completed that found a peer in S and no peer in M.
C9_Witness ==
    /\ completed_now /\ snooped.cmd = BUS_RDX
    /\ \E p \in Cores : snooped.held[p] = MESI_S
    /\ MHolders = {}

\* C10: after all four cores posted in one cycle with rr_next = 0, the next
\* transactions are won by cores 0, 1, 2, 3 in this order.
C10_RoundRobin ==
    rr_watch # <<-1>> => \A k \in 1..Len(rr_watch) : rr_watch[k] = k - 1

\* C10 witness: the four transactions have started.
C10_Witness == rr_watch = <<0, 1, 2, 3>>

IsJump(op) == IsBranch(op) \/ op = OP_JAL
NextPc(pc) == (pc + 1) % IMEM_SIZE

\* entry k of the retire log of core c is a branch or JAL followed in the log
\* by the instruction it was retired before
JumpAt(c, k) == k < Len(retire_log[c]) /\ IsJump(retire_log[c][k].op)

\* what must follow a branch or JAL at entry k: the instruction at pc + 1
\* retired next with its result in the register file, and after it the target
\* (taken) or pc + 2 (not taken), so the delay slot ran once
SlotFollows(c, k) ==
    LET log == retire_log[c]
    IN  /\ log[k + 1].pc = NextPc(log[k].pc)
        /\ log[k + 1].issued_pc = log[k + 1].pc
        /\ (k + 1 = Len(log) /\ log[k + 1].dst >= 0) =>
               cores[c].regs[log[k + 1].dst] = log[k + 1].value
        /\ k + 2 <= Len(log) =>
               log[k + 2].pc = IF log[k].taken THEN log[k].target
                               ELSE NextPc(NextPc(log[k].pc))

\* C11 as stated: every branch or JAL that retired is followed by the
\* instruction at pc + 1, which retires once with its register result.
C11_DelaySlot_AsStated ==
    \A c \in Cores : \A k \in 1..Len(retire_log[c]) : JumpAt(c, k) => SlotFollows(c, k)

\* the instruction before entry k is known and is not a taken branch or JAL
NotInTakenSlot(c, k) ==
    \/ k = 1 /\ Len(retire_log[c]) < RetireWindow
    \/ k > 1 /\ ~(IsJump(retire_log[c][k - 1].op) /\ retire_log[c][k - 1].taken)

\* C11 amended: every branch or JAL that is not itself in the delay slot of a
\* taken branch or JAL is followed by the instruction at pc + 1, which retires
\* once, taken or not, with its register result committed.
C11_DelaySlot ==
    \A c \in Cores : \A k \in 1..Len(retire_log[c]) :
        (JumpAt(c, k) /\ NotInTakenSlot(c, k)) => SlotFollows(c, k)

\* C11 witness: a taken branch, its delay slot with a register result, and the
\* target have retired, and the instruction between slot and target was skipped.
C11_Witness ==
    \E c \in Cores : \E k \in 1..Len(retire_log[c]) :
        /\ JumpAt(c, k) /\ NotInTakenSlot(c, k) /\ retire_log[c][k].taken
        /\ k + 2 <= Len(retire_log[c])
        /\ retire_log[c][k + 1].dst >= 2
        /\ retire_log[c][k + 2].pc > NextPc(NextPc(retire_log[c][k].pc))

\* the instruction that left Memory of core c last
LeftMem(c) == mem_watch[c].done
Gain(c, field) == LeftMem(c).after[field] - LeftMem(c).before[field]

\* the last instruction to leave Memory of core c was a LW served by one BusRd
\* that found the block in no peer cache
LoadedAlone(c) ==
    /\ LeftMem(c).valid /\ LeftMem(c).op = OP_LW
    /\ Len(LeftMem(c).served) = 1
    /\ LeftMem(c).served[1].cmd = BUS_RD
    /\ LeftMem(c).served[1].held = {MESI_I}

\* C12: a LW that misses on a block held by no peer leaves Memory with
\* read_miss + 1, read_hit + 0, at least 16 mem_stall cycles, the memory word
\* as its value, the memory block in its cache line, and the line in E; the
\* value is what Writeback commits to the register.
C12_LoadMiss ==
    \A c \in Cores :
        LoadedAlone(c) =>
            /\ Gain(c, "read_miss") = 1
            /\ Gain(c, "read_hit") = 0
            /\ Gain(c, "write_miss") = 0 /\ Gain(c, "write_hit") = 0
            /\ Gain(c, "mem_stall") >= MEM_LATENCY
            /\ LeftMem(c).value = LeftMem(c).block[LeftMem(c).addr % BLOCK_WORDS]
            /\ LeftMem(c).line = LeftMem(c).block
            /\ LeftMem(c).state = MESI_E
            /\ \A k \in 1..Len(retire_log[c]) :
                  (k = Len(retire_log[c]) /\ retire_log[c][k].pc = LeftMem(c).pc
                   /\ retire_log[c][k].dst >= 2) =>
                      cores[c].regs[retire_log[c][k].dst] = LeftMem(c).value

\* C12 witness: such a LW has retired into a register.
C12_Witness ==
    \E c \in Cores :
        /\ LoadedAlone(c)
        /\ Len(retire_log[c]) > 0
        /\ retire_log[c][Len(retire_log[c])].pc = LeftMem(c).pc
        /\ retire_log[c][Len(retire_log[c])].op = OP_LW
        /\ retire_log[c][Len(retire_log[c])].dst >= 2
        /\ cores[c].regs[retire_log[c][Len(retire_log[c])].dst] = MemImage[LeftMem(c).addr]

\* some peer of the requester held the block of the latest transaction at its snoop
PeerHeld == \E p \in Cores \ {snooped.origin} : snooped.held[p] # MESI_I

\* C13: the shared indicator of a transaction is set iff a peer held the block
\* at the snoop; at completion the requester's line is S after a BusRd with a
\* peer holding, E after a BusRd without, and M after a BusRdX either way.
C13_FillState ==
    /\ bus.phase # PHASE_IDLE => bus.shared = (IF PeerHeld THEN 1 ELSE 0)
    /\ completed_now =>
          /\ bus.shared = (IF PeerHeld THEN 1 ELSE 0)
          /\ HeldState(cores[snooped.origin].cache, snooped.addr) =
                (IF snooped.cmd = BUS_RDX THEN MESI_M
                 ELSE IF PeerHeld THEN MESI_S ELSE MESI_E)

\* C13 witness: a BusRd completed whose block a peer held in S or E, so that
\* memory supplied the data and the requester was filled in S.
C13_Witness ==
    /\ completed_now /\ snooped.cmd = BUS_RD /\ PeerHeld /\ MHolders = {}
    /\ bus.provider = 4
    /\ HeldState(cores[snooped.origin].cache, snooped.addr) = MESI_S

\* the last instruction to leave Memory of core c was a SW whose first lookup
\* found the line present in state S
StoredOnShared(c) ==
    LeftMem(c).valid /\ LeftMem(c).op = OP_SW /\ LeftMem(c).found = MESI_S

\* C14: a SW that finds its line in S is counted as a miss: write_miss + 1,
\* write_hit + 0 over its stay in Memory, and it posts a BusRdX.
C14_UpgradeMiss ==
    \A c \in Cores :
        StoredOnShared(c) =>
            /\ Gain(c, "write_miss") = 1
            /\ Gain(c, "write_hit") = 0
            /\ LeftMem(c).posted = BUS_RDX

\* core c has fetched a HALT: one of its latches holds it or it has retired
HaltFetched(c) ==
    \/ cores[c].halted
    \/ \E l \in {cores[c].fetch, cores[c].decode, cores[c].exec, cores[c].mem, cores[c].wb} :
          l.valid /\ l.inst.op = OP_HALT

\* C15: once a core has fetched a HALT (sequentially, at reset or as the target
\* of a redirect) stop_fetch is set, and no instruction retires after the HALT.
C15_HaltStopsFetch ==
    \A c \in Cores :
        /\ HaltFetched(c) => cores[c].stop_fetch
        /\ \A k \in 1..Len(retire_log[c]) :
              retire_log[c][k].op = OP_HALT => k = Len(retire_log[c])

\* the data of line l of cache c equals main memory of the block it caches
LineIsMemory(c, l) ==
    \A o \in Offsets : LineData(c, l)[o] = main_mem[line_base_addr(TagOf(c, l), l) + o]

\* C16 as stated: every cache line in state S holds the data of main memory.
C16_SharedIsMemory_AsStated ==
    \A c \in Cores, l \in Lines : State(c, l) = MESI_S => LineIsMemory(c, l)

\* C16 amended: every cache line in state S holds the data of main memory,
\* except while a transaction for its block is in flight whose data a peer
\* cache supplies (memory receives the block when the transaction completes).
C16_SharedIsMemory ==
    \A c \in Cores, l \in Lines :
        (State(c, l) = MESI_S /\ ~CacheToCacheInFlight(TagOf(c, l), l)) =>
            LineIsMemory(c, l)

\* C16 witness: two caches share a block that was stored to and flushed, and
\* both hold what memory holds.
C16_Witness ==
    \E c \in Cores, d \in Cores, l \in Lines :
        /\ c # d
        /\ State(c, l) = MESI_S /\ State(d, l) = MESI_S /\ TagOf(c, l) = TagOf(d, l)
        /\ ~CacheToCacheInFlight(TagOf(c, l), l)
        /\ LineIsMemory(c, l) /\ LineIsMemory(d, l)
        /\ \E o \in Offsets :
              LineData(c, l)[o] # MemImage[line_base_addr(TagOf(c, l), l) + o]

\* fault: every core posts into slot 0
request_slot_zero(i) == 0

\* lines 657-660: core i posts into its own slot requests[i]
request_slot(i) == i

\* The Writeback commit of core i alone (lines 604-612), on the cores and slots g
WbVisit(g, i) == [g EXCEPT !.cores[i] = wb_commit(g.cores[i])]

\* One iteration of the pipeline loop for core i alone (lines 617-819)
PipeStep(g, i, r) ==
    [cores |-> [g.cores EXCEPT ![i] = r.core],
     requests |-> IF r.posts THEN [g.requests EXCEPT ![request_slot(i)] = r.req]
                  ELSE g.requests]
PipeVisit(g, i) == PipeStep(g, i, pipeline_core(g.cores[i], imem[i], i))

\* The orders in which the four cores can be visited
VisitOrders == {o \in [1..NUM_CORES -> Cores] : \A a, b \in 1..NUM_CORES : o[a] = o[b] => a = b}

RECURSIVE WbPhase(_, _, _)
WbPhase(g, o, k) == IF k > NUM_CORES THEN g ELSE WbPhase(WbVisit(g, o[k]), o, k + 1)

RECURSIVE PipePhase(_, _, _)
PipePhase(g, o, k) == IF k > NUM_CORES THEN g ELSE PipePhase(PipeVisit(g, o[k]), o, k + 1)

Shared == [cores |-> cores, requests |-> requests]
CodeOrder == [k \in 1..NUM_CORES |-> k - 1]

\* C17: in the Writeback-commit phase and in the pipeline phase the steps of
\* two different cores commute, and visiting the cores in any order gives the
\* state that the order 0, 1, 2, 3 gives.
C17_VisitOrder ==
    /\ step = "wb" =>
          /\ \A i, j \in Cores :
                WbVisit(WbVisit(Shared, i), j) = WbVisit(WbVisit(Shared, j), i)
          /\ \A o \in VisitOrders : WbPhase(Shared, o, 1) = WbPhase(Shared, CodeOrder, 1)
    /\ step = "pipe" =>
          /\ \A i, j \in Cores :
                i < j => PipeVisit(PipeVisit(Shared, i), j) = PipeVisit(PipeVisit(Shared, j), i)
          /\ \A o \in VisitOrders : PipePhase(Shared, o, 1) = PipePhase(Shared, CodeOrder, 1)
          /\ PipePhase(Shared, CodeOrder, 1).cores =
                [i \in Cores |-> pipeline_core(cores[i], imem[i], i).core]

\* C17 witness: a pipeline phase in which two cores post a request while a
\* third has an instruction in flight.
C17_Witness ==
    /\ step = "pipe"
    /\ \E i, j, k \in Cores :
          /\ i # j /\ i # k /\ j # k
          /\ pipeline_core(cores[i], imem[i], i).posts
          /\ pipeline_core(cores[j], imem[j], j).posts
          /\ ~NoLatchValid(k) /\ ~cores[k].mem.waiting

\* the source registers with index >= 2 of the instruction in Decode of core c
Sources(c) == {reg \in source_regs(cores[c].decode.inst) : reg >= 2}

\* what the register file gives for register reg when Decode reads it
ReadValue(c, reg) == IF reg = 1 THEN cores[c].decode.inst.imm ELSE cores[c].regs[reg]

\* C18: an instruction leaves Decode only in a cycle in which no valid
\* Execute, Memory or Writeback latch holds a writer of one of its source
\* registers >= 2; no older instruction that writes one of them is still
\* unretired, and the operands latched into Execute are the register file's.
C18_NoStaleRead ==
    [][\A c \in Cores :
          (step = "pipe" /\ Issues(cores[c])) =>
              /\ \A reg \in Sources(c) :
                    /\ ~(cores[c].exec.valid /\ dest_reg(cores[c].exec.inst) = reg)
                    /\ ~(cores[c].mem.valid /\ dest_reg(cores[c].mem.inst) = reg)
                    /\ ~(cores[c].wb.valid /\ dest_reg(cores[c].wb.inst) = reg)
                    /\ \A k \in 1..Len(flight[c]) : flight[c][k].dst # reg
              /\ cores'[c].exec.valid
              /\ cores'[c].exec.inst = cores[c].decode.inst
              /\ cores'[c].exec.rs_val = ReadValue(c, cores[c].decode.inst.rs)
              /\ cores'[c].exec.rt_val = ReadValue(c, cores[c].decode.inst.rt)
              /\ cores'[c].exec.rd_val = ReadValue(c, cores[c].decode.inst.rd)]_vars

\* C18 witness: an instruction that stalled in Decode for an older writer is
\* about to leave Decode, and the register it reads holds the writer's result.
C18_Witness ==
    \E c \in Cores :
        /\ step = "pipe" /\ Issues(cores[c])
        /\ cores[c].stats.decode_stall > 0
        /\ \E reg \in Sources(c) :
              /\ cores[c].regs[reg] # 0
              /\ \E k \in 1..Len(retire_log[c]) :
                    /\ retire_log[c][k].dst = reg
                    /\ retire_log[c][k].value = cores[c].regs[reg]

\* cycles from the command of the latest transaction to its first Flush word:
\* the memory latency when memory (provider 4) supplies the data, else 1
FlushDelay == IF bus.provider = NUM_CORES THEN MEM_LATENCY ELSE 1

\* C19: after the BusRd/BusRdX command of a transaction the bus drives no
\* command until the first Flush word, which comes 16 cycles after the
\* command cycle when memory supplies the data and in the next cycle when a
\* peer cache does.
C19_FlushLatency ==
    /\ Len(bustrace) >= 2 =>
          /\ bustrace[1].cmd \in {BUS_RD, BUS_RDX}
          /\ bustrace[2].cmd = BUS_FLUSH
          /\ bustrace[2].origid = bus.provider
          /\ bustrace[2].cycle = bustrace[1].cycle + FlushDelay
    /\ (Len(bustrace) = 1 /\ bus.phase # PHASE_IDLE) =>
          /\ cycle <= bustrace[1].cycle + FlushDelay
          /\ cycle = bustrace[1].cycle + FlushDelay => step \in {"wb", "pipe", "arb"}
          /\ (cycle > bustrace[1].cycle /\ step # "wb") => bus.bus_cmd_out = BUS_NONE

\* C19 witness: the first Flush word of a transaction served by memory is on
\* the bus, 16 cycles after a command that found a peer holding the block.
C19_Witness ==
    /\ Len(bustrace) = 2
    /\ bus.provider = NUM_CORES /\ bus.shared = 1
    /\ bus.bus_cmd_out = BUS_FLUSH
    /\ bustrace[2].cycle = bustrace[1].cycle + MEM_LATENCY

\* the Flush lines written for the latest transaction
FlushCount == Len(bustrace) - 1
\* the requester of the latest transaction and its block in main memory
Requester == cores[bus.origin]
MemBlock == [o \in Offsets |-> main_mem[block_base(bus.addr) + o]]

\* lines 841-870: the Flush words of the latest transaction and what holds
\* while it is in flight and in the state its last word leaves
FlushStream ==
    /\ FlushCount <= BLOCK_WORDS
    /\ \A k \in 0..(FlushCount - 1) :
          /\ bustrace[k + 2].cmd = BUS_FLUSH
          /\ bustrace[k + 2].cycle = bustrace[2].cycle + k
          /\ bustrace[k + 2].addr = block_base(bus.addr) + k
          /\ bustrace[k + 2].data = bus.block[k]
          /\ bustrace[k + 2].origid = bus.provider
          /\ bustrace[k + 2].shared = bus.shared
    /\ bus.phase # PHASE_IDLE =>
          /\ ~completed_now
          /\ FlushCount < BLOCK_WORDS \/ step = "adv"
          /\ Requester.mem.valid /\ Requester.mem.waiting
          /\ HeldState(Requester.cache, bus.addr) = snooped.held[bus.origin]
    /\ (bus.phase = PHASE_IDLE /\ Len(bustrace) > 0) => FlushCount = BLOCK_WORDS
    /\ completed_now =>
          /\ bus.phase = PHASE_IDLE
          /\ FlushCount = BLOCK_WORDS
          /\ cycle = bustrace[1 + BLOCK_WORDS].cycle + (IF step = "exit" THEN 0 ELSE 1)
          /\ MemBlock = bus.block
          /\ LineData(bus.origin, cache_index(bus.addr)) = bus.block
          /\ HeldState(Requester.cache, bus.addr) = fill_state(snooped.cmd, bus.shared)
          /\ ~Requester.mem.waiting

\* lines 398-417, 860-870: a step that writes main memory, or that ends the
\* requester's wait, changes its line or idles the bus during a transaction,
\* is the step of the cycle that drove the 8th Flush word
CompletesOnly ==
    (\/ main_mem' # main_mem
     \/ /\ bus.phase # PHASE_IDLE
        /\ \/ bus'.phase = PHASE_IDLE
           \/ ~cores'[bus.origin].mem.waiting
           \/ HeldState(cores'[bus.origin].cache, bus.addr)
                  # HeldState(Requester.cache, bus.addr))
    => /\ completed_now'
       /\ FlushCount = BLOCK_WORDS
       /\ bustrace[1 + BLOCK_WORDS].cycle = cycle

\* C20: a transaction drives its 8 Flush words in 8 consecutive cycles, word k
\* with addr = block_base + k, data = block[k], origid = provider and the
\* snoop's shared; memory is written, the requester's line filled, its waiting
\* flag cleared and the bus idled only by the step that ends the cycle of the
\* 8th word, and all of them by that step.
C20_FlushStream == []FlushStream /\ [][CompletesOnly]_vars

\* C20 witness: a BusRdX supplied by a peer cache has completed.
C20_Witness ==
    /\ completed_now /\ snooped.cmd = BUS_RDX
    /\ bus.provider # NUM_CORES
    /\ FlushCount = BLOCK_WORDS
    /\ \E o \in Offsets : bus.block[o] # MemImage[block_base(bus.addr) + o]

\* the last instruction to leave Memory of core c was a LW or SW whose first
\* lookup asked for the bus (the test of line 655)
MissedInMem(c) ==
    /\ LeftMem(c).valid /\ LeftMem(c).op \in {OP_LW, OP_SW}
    /\ \/ LeftMem(c).found = MESI_I
       \/ LeftMem(c).op = OP_SW /\ LeftMem(c).found = MESI_S

\* C21: a LW or SW that misses posts one request over its stay in Memory and is
\* served by one transaction; in the state its transaction completes the
\* requester's lookup is usable, and it leaves Memory on its second lookup.
\* An access that hits posts nothing.
C21_OnePost ==
    /\ \A c \in Cores :
          /\ mem_watch[c].cur.posts <= 1
          /\ Len(mem_watch[c].cur.served) <= mem_watch[c].cur.posts
          /\ MissedInMem(c) =>
                /\ LeftMem(c).posts = 1
                /\ Len(LeftMem(c).served) = 1
                /\ mem_counts[c].last_lookups = 2
          /\ (LeftMem(c).valid /\ ~MissedInMem(c)) =>
                LeftMem(c).posts = 0 /\ LeftMem(c).served = <<>>
    /\ completed_now =>
          /\ mem_watch[bus.origin].cur.posts = 1
          /\ mem_lookup(Requester).usable
          /\ mem_lookup(Requester).advances
          /\ ~requests[bus.origin].active

\* C21 witness: a SW that found its line in S left Memory after one BusRdX
\* that invalidated a peer's copy.
C21_Witness ==
    \E c \in Cores :
        /\ MissedInMem(c) /\ LeftMem(c).found = MESI_S
        /\ LeftMem(c).posts = 1
        /\ MESI_S \in LeftMem(c).served[1].held
        /\ LeftMem(c).state = MESI_M

\* the latest fill replaced a line of another block (a different tag)
Evicted == completed_now /\ replaced.tag # cache_tag(bus.addr)
\* word o of the replaced line's block in main memory now
EvictedWord(o) == main_mem[line_base_addr(replaced.tag, replaced.index) + o]

\* C22: a fill that replaces a line in M of another block leaves all 8 words of
\* that line in main memory at the line's own base address, and they are the
\* latest stored values; a replaced line in S, E or I of another block leaves
\* its block in main memory as it was; the fill never finds its own block in M.
C22_EvictionWriteback ==
    /\ completed_now => ~(replaced.state = MESI_M /\ replaced.tag = cache_tag(bus.addr))
    /\ (Evicted /\ replaced.state = MESI_M) =>
          \A o \in Offsets :
              /\ EvictedWord(o) = replaced.data[o]
              /\ EvictedWord(o) = committed[line_base_addr(replaced.tag, replaced.index) + o]
    /\ (Evicted /\ replaced.state # MESI_M) =>
          \A o \in Offsets : EvictedWord(o) = replaced.block[o]

\* C22 witness: a fill replaced an M line whose data differed from main memory.
C22_Witness ==
    /\ Evicted /\ replaced.state = MESI_M
    /\ \E o \in Offsets : replaced.data[o] # replaced.block[o]

\* core c has a request in its slot that has not been granted
Pending(c) == requests[c].active
\* the transaction of core c has just completed and released its Memory stage
Served(c) == completed_now /\ bus.origin = c /\ ~cores[c].mem.waiting
\* the SIM_MAX_CYCLES test of line 872 has ended the loop
Aborted == step = "exit" /\ max_cycles >= 0 /\ cycle >= max_cycles
\* no core has been granted twice since the latest post of another core
NoOvertaking == \A c \in Cores, d \in Cores : overtaken[c][d] <= 1

\* C23 as stated: no core is granted twice while another waits, and every
\* posted request leads to the completion of its transaction with the waiting
\* flag cleared.
C23_StarvationFree_AsStated ==
    /\ []NoOvertaking
    /\ \A c \in Cores : Pending(c) ~> Served(c)

\* C23: between a core's post and the start of its transaction every other
\* core is granted at most one transaction, and a posted request leads to the
\* completion of its transaction with the core's waiting flag cleared, in every
\* run that the cycle cap does not end first.
C23_StarvationFree ==
    /\ []NoOvertaking
    /\ \A c \in Cores : Pending(c) ~> (Served(c) \/ Aborted)

\* C23 witness: a core is served after each of the three others was granted
\* once since its post.
C23_Witness ==
    \E c \in Cores :
        /\ Served(c)
        /\ \A d \in Cores \ {c} : overtaken[c][d] = 1

\* line l of the cache of core c is the same after the step
LineKept(c, l) ==
    /\ cores'[c].cache.state[l] = cores[c].cache.state[l]
    /\ cores'[c].cache.tag[l] = cores[c].cache.tag[l]
    /\ \A o \in Offsets : cores'[c].cache.data[l * BLOCK_WORDS + o]
                             = cores[c].cache.data[l * BLOCK_WORDS + o]
\* ... apart from its MESI state
LineDataKept(c, l) ==
    /\ cores'[c].cache.tag[l] = cores[c].cache.tag[l]
    /\ \A o \in Offsets : cores'[c].cache.data[l * BLOCK_WORDS + o]
                             = cores[c].cache.data[l * BLOCK_WORDS + o]

\* lines 822-839: the arbitration step changes a line only by the snoop of a
\* transaction it starts: not in the origin, only the MESI state, only of the
\* line that holds the requested block
SnoopFrame ==
    \A c \in Cores, l \in Lines :
        /\ LineDataKept(c, l)
        /\ ~LineKept(c, l) =>
              /\ tx_started' = tx_started + 1
              /\ c # bus'.origin
              /\ l = cache_index(bus'.addr)
              /\ cores[c].cache.tag[l] = cache_tag(bus'.addr)
              /\ cores[c].cache.state[l] # MESI_I

\* lines 860-870: the bus advance changes a line only by the fill of the
\* transaction it completes: the requester's line at the block's index
FillFrame ==
    \A c \in Cores, l \in Lines :
        ~LineKept(c, l) =>
            /\ completed_now'
            /\ c = bus.origin
            /\ l = cache_index(bus.addr)

\* lines 630-694: the pipeline step changes a line of a core only by the SW in
\* that core's own Memory stage, at the index of its address
OwnStoreFrame ==
    \A c \in Cores, l \in Lines :
        ~LineKept(c, l) =>
            /\ cores[c].mem.valid /\ ~cores[c].mem.waiting
            /\ cores[c].mem.inst.op = OP_SW
            /\ l = cache_index(cores[c].mem.mem_addr)

\* C24: a cache line changes only in three ways: by its own core's Memory
\* stage; by the snoop at a transaction's start, which leaves the origin's
\* cache alone and changes only the MESI state of the line holding the
\* requested block; by the fill at completion, which changes only the
\* requester's line at the block's index.
C24_CacheFrame ==
    [][/\ step = "wb" => \A c \in Cores : cores'[c].cache = cores[c].cache
       /\ step = "pipe" => OwnStoreFrame
       /\ step = "arb" => SnoopFrame
       /\ step = "adv" => FillFrame]_vars

\* C24 witness: a BusRdX has just started whose snoop invalidated the copy of
\* one peer and found nothing in another peer that holds a different block.
C24_Witness ==
    /\ step = "adv" /\ Len(bustrace) = 1 /\ snooped.cmd = BUS_RDX
    /\ \E p \in Cores \ {snooped.origin} :
          /\ snooped.held[p] # MESI_I
          /\ HeldState(cores[p].cache, snooped.addr) = MESI_I
    /\ \E q \in Cores \ {snooped.origin}, l \in Lines :
          /\ snooped.held[q] = MESI_I
          /\ cores[q].cache.state[l] # MESI_I

\* core j performs a SW on word a in the pipeline step about to be taken
StoresNow(j, a) ==
    /\ mem_lookup(cores[j]).usable /\ cores[j].mem.inst.op = OP_SW
    /\ cores[j].mem.mem_addr = a
\* The data of the latest SW on word a at the point where core i runs its
\* Memory stage: the loop of line 616 has then run the cores before i.
LatestFor(i, a) ==
    LET S == {j \in Cores : j < i /\ StoresNow(j, a)}
    IN  IF S = {} THEN committed[a]
        ELSE cores[CHOOSE j \in S : \A k \in S : k <= j].mem.store_data
\* core i completes a LW in the pipeline step about to be taken
LoadsNow(i) ==
    /\ cores[i].mem.valid /\ cores[i].mem.inst.op = OP_LW
    /\ mem_lookup(cores[i]).advances

\* every copy of a block that a cache holds in S, E or M is the latest stored data
CopiesCurrent ==
    \A c \in Cores, l \in Lines :
        State(c, l) # MESI_I =>
            \A o \in Offsets :
                cores[c].cache.data[l * BLOCK_WORDS + o]
                    = committed[line_base_addr(TagOf(c, l), l) + o]
\* the block staged on the bus is the latest stored data
StagedCurrent ==
    bus.phase # PHASE_IDLE =>
        \A o \in Offsets : bus.block[o] = committed[block_base(bus.addr) + o]

\* C25: the value a LW takes in its Memory stage is the data of the latest SW
\* on that word by any core (the initial memory word if there was none); every
\* cached copy and every staged block carries the latest stored data.
C25_Coherence ==
    /\ []CopiesCurrent
    /\ []StagedCurrent
    /\ [][step = "pipe" =>
            \A i \in Cores :
                LoadsNow(i) =>
                    /\ cores'[i].wb.valid
                    /\ cores'[i].wb.value = LatestFor(i, cores[i].mem.mem_addr)]_vars

\* C25 witness: a LW left Memory with a stored value that a peer cache supplied.
C25_Witness ==
    \E c \in Cores :
        /\ LeftMem(c).valid /\ LeftMem(c).op = OP_LW
        /\ LeftMem(c).value # MemImage[LeftMem(c).addr]
        /\ LeftMem(c).value = committed[LeftMem(c).addr]
        /\ Len(LeftMem(c).served) = 1
        /\ MESI_M \in LeftMem(c).served[1].held

\* the instruction in Decode of core c is a JAL, or a branch whose condition
\* holds on the registers as Decode reads them (lines 762-776)
Jumps(c) ==
    \/ cores[c].decode.inst.op = OP_JAL
    \/ /\ IsBranch(cores[c].decode.inst.op)
       /\ perform_compare(cores[c].decode.inst,
                          decode_regs(cores[c])[cores[c].decode.inst.rs],
                          decode_regs(cores[c])[cores[c].decode.inst.rt])
\* regs[rd] mod 1024 as Decode reads it
JumpTarget(c) == decode_regs(cores[c])[cores[c].decode.inst.rd] % IMEM_SIZE
\* the instruction at address pc of core c's program, as Fetch decodes it
InstAt(c, pc) == decode_inst(ImemWord(imem[c], pc), pc)

\* lines 792-798: the step fetches the jump target of core c and consumes the redirect
FetchesTarget(c) ==
    /\ cores'[c].fetch.valid
    /\ cores'[c].fetch.inst = InstAt(c, JumpTarget(c))
    /\ cores'[c].pc = (JumpTarget(c) + 1) % IMEM_SIZE
    /\ ~cores'[c].redirect_pending
    /\ cores'[c].decode.valid /\ cores'[c].decode.inst = cores[c].fetch.inst

\* lines 791, 807-809: with stop_fetch set the step fetches nothing and the
\* redirect stays pending
FetchStopped(c) ==
    /\ ~cores'[c].fetch.valid
    /\ cores'[c].pc = cores[c].pc
    /\ cores'[c].redirect_pending
    /\ cores'[c].redirect_pc = JumpTarget(c)

\* the step leaves no redirect pending that was not pending before it
SetsNoRedirect(c) ==
    /\ cores'[c].redirect_pending => cores[c].redirect_pending
    /\ cores'[c].redirect_pc = cores[c].redirect_pc
    /\ ~cores[c].redirect_pending =>
          (cores'[c].fetch.valid => cores'[c].fetch.inst.pc = cores[c].pc)

\* C27 as stated: whenever a JAL or a branch whose condition holds leaves
\* Decode, the same step fetches the target, sets the next PC to target + 1
\* and consumes the redirect; a branch whose condition fails sets no redirect.
C27_Redirect_AsStated ==
    [][step = "pipe" =>
          \A c \in Cores :
              Issues(cores[c]) =>
                  /\ Jumps(c) => FetchesTarget(c)
                  /\ ~Jumps(c) => SetsNoRedirect(c)]_vars

\* C27 amended: the same, for a core that has not yet fetched a HALT; once
\* stop_fetch is set (a HALT in the delay slot) the step fetches nothing and
\* the redirect stays pending.
C27_Redirect ==
    [][step = "pipe" =>
          \A c \in Cores :
              Issues(cores[c]) =>
                  /\ (Jumps(c) /\ ~cores[c].stop_fetch) => FetchesTarget(c)
                  /\ (Jumps(c) /\ cores[c].stop_fetch) => FetchStopped(c)
                  /\ ~Jumps(c) => SetsNoRedirect(c)]_vars

\* C27 witness: a taken branch has just left Decode: its delay slot is in
\* Decode, the instruction at its target, not the one after the delay slot, is
\* in the Fetch latch, and the next PC is one past the target.
C27_Witness ==
    \E c \in Cores :
        /\ step = "arb" /\ Len(flight[c]) > 0
        /\ flight[c][Len(flight[c])].taken
        /\ IsBranch(flight[c][Len(flight[c])].op)
        /\ cores[c].exec.valid /\ cores[c].exec.inst.pc = flight[c][Len(flight[c])].pc
        /\ cores[c].decode.valid
        /\ cores[c].decode.inst.pc = NextPc(flight[c][Len(flight[c])].pc)
        /\ cores[c].fetch.valid
        /\ cores[c].fetch.inst.pc = flight[c][Len(flight[c])].target
        /\ cores[c].fetch.inst.pc # NextPc(cores[c].decode.inst.pc)
        /\ cores[c].pc = NextPc(flight[c][Len(flight[c])].target)
        /\ ~cores[c].redirect_pending

\* the instruction of a latch as a one-element sequence, empty when not valid
Held(stage) == IF stage.valid THEN <<stage.inst>> ELSE <<>>
\* The instructions in the latches of core c that have not retired, oldest
\* first; between the commit of line 603 and the pipeline loop the Writeback
\* latch still holds the instruction just retired.
InPipeline(c) ==
    (IF step = "pipe" THEN <<>> ELSE Held(cores[c].wb))
        \o Held(cores[c].mem) \o Held(cores[c].exec)
        \o Held(cores[c].decode) \o Held(cores[c].fetch)
\* the instructions core c has retired so far (line 612 counts them)
RetiredCount(c) == cores[c].stats.instructions

\* lines 749-815: the retired instructions and those in the latches make up,
\* in order, the instructions that were placed in the Fetch latch
InFetchOrder ==
    \A c \in Cores :
        /\ RetiredCount(c) + Len(InPipeline(c)) = Len(fetch_log[c])
        /\ \A k \in 1..Len(InPipeline(c)) :
              InPipeline(c)[k] = fetch_log[c][RetiredCount(c) + k]
        /\ Len(retire_log[c]) > 0 =>
              /\ retire_log[c][Len(retire_log[c])].pc = fetch_log[c][RetiredCount(c)].pc
              /\ retire_log[c][Len(retire_log[c])].op = fetch_log[c][RetiredCount(c)].op

\* lines 631-634, 663-666: a waiting Memory stage keeps its instruction
WaitingHeld ==
    \A c \in Cores :
        (cores[c].mem.valid /\ cores[c].mem.waiting) =>
            /\ cores'[c].mem.valid
            /\ cores'[c].mem.inst = cores[c].mem.inst
            /\ cores'[c].mem.mem_addr = cores[c].mem.mem_addr
            /\ cores'[c].mem.store_data = cores[c].mem.store_data
            /\ step = "pipe" =>
                  /\ cores'[c].mem.waiting
                  /\ ~cores'[c].wb.valid
                  /\ cores[c].exec.valid => cores'[c].exec = cores[c].exec

\* C26: the instructions a core has retired, followed by those in its
\* Writeback, Memory, Execute, Decode and Fetch latches, are exactly the
\* instructions placed in its Fetch latch, in fetch order: none dropped,
\* duplicated or overtaken; a waiting Memory stage holds its instruction.
C26_InOrder == []InFetchOrder /\ [][WaitingHeld]_vars

\* C26 witness: a core that has already stalled in Decode and retired has its
\* Memory stage waiting with Execute, Decode and Fetch backed up behind it.
C26_Witness ==
    \E c \in Cores :
        /\ cores[c].mem.valid /\ cores[c].mem.waiting
        /\ cores[c].exec.valid /\ cores[c].decode.valid /\ cores[c].fetch.valid
        /\ cores[c].stats.decode_stall > 0
        /\ cores[c].stats.mem_stall > 1
        /\ RetiredCount(c) > 0

====
